---------------------------- MODULE Spec2Model ----------------------------
(***************************************************************************)
(* Model of the synthetic-data generation pipeline                         *)
(* (backend/modules/processor.py, backend/modules/llm_client.py,           *)
(*  backend/models/YAMLConfig.py, backend/api/upload/routes.py).           *)
(*                                                                         *)
(* Text is modelled as a sequence of tokens (strings); the marker strings  *)
(* the code searches for are single tokens.  Python floats are modelled as *)
(* binary floating-point numbers <<m, e>> (value m * 2^e) with a FloatBits *)
(* bit significand and round-half-to-even.  Metrics are scaled integers.   *)
(***************************************************************************)
EXTENDS Integers, Sequences, FiniteSets, TLC

(***************************************************************************)
(* Bounds of the model.                                                    *)
(***************************************************************************)
MaxSamples == 2
MaxPublishes == 1
MaxPublishedSamples == 1
FloatBits == 4
MaxTempSamples == 3
MaxChunks == 2
MaxBatch == 2
MaxUploads == 2
MaxTemplateLen == 3
MaxPromptLen == 3
MaxMessages == 3
MaxSockets == 2
MaxRedeliveries == 1
MaxRequests == 2
MaxTarget == 201

(***************************************************************************)
(* Generic helpers.                                                        *)
(***************************************************************************)
Max(a, b) == IF a >= b THEN a ELSE b

Abs(a) == IF a >= 0 THEN a ELSE -a

RECURSIVE Pow2(_)
Pow2(k) == IF k <= 0 THEN 1 ELSE 2 * Pow2(k - 1)

(***************************************************************************)
(* Python float arithmetic, at reduced precision.  A float is <<m, e>>     *)
(* with 2^(FloatBits-1) <= |m| < 2^FloatBits, or <<0, 0>>.                 *)
(***************************************************************************)
FlZero == <<0, 0>>

\* numerator and denominator of the exact value of a float
FlNum(f) == IF f[2] >= 0 THEN f[1] * Pow2(f[2]) ELSE f[1]

FlDen(f) == IF f[2] >= 0 THEN 1 ELSE Pow2(-f[2])

\* the exponent e with 2^(FloatBits-1) <= n / (d * 2^e) < 2^FloatBits, n, d > 0
RECURSIVE FlExp(_, _, _)
FlExp(n, d, e) ==
    LET lo == IF e >= 0 THEN Pow2(FloatBits - 1) * d * Pow2(e) <= n
                        ELSE Pow2(FloatBits - 1) * d <= n * Pow2(-e)
        hi == IF e >= 0 THEN n < Pow2(FloatBits) * d * Pow2(e)
                        ELSE n * Pow2(-e) < Pow2(FloatBits) * d
    IN  IF ~lo THEN FlExp(n, d, e - 1)
        ELSE IF ~hi THEN FlExp(n, d, e + 1)
        ELSE e

\* n / d (n >= 0, d > 0) rounded to the nearest integer, ties to even
RoundHalfEven(n, d) ==
    LET q == n \div d
        r == n % d
    IN  IF 2 * r < d THEN q
        ELSE IF 2 * r > d THEN q + 1
        ELSE IF q % 2 = 0 THEN q ELSE q + 1

\* the float nearest to the rational n / d (d > 0)
FlRound(n, d) ==
    IF n = 0 THEN FlZero
    ELSE LET a  == Abs(n)
             sg == IF n < 0 THEN -1 ELSE 1
             e  == FlExp(a, d, 0)
             m  == IF e >= 0 THEN RoundHalfEven(a, d * Pow2(e))
                             ELSE RoundHalfEven(a * Pow2(-e), d)
         IN  IF m = Pow2(FloatBits) THEN <<sg * Pow2(FloatBits - 1), e + 1>>
                                    ELSE <<sg * m, e>>

FlAdd(a, b) == FlRound(FlNum(a) * FlDen(b) + FlNum(b) * FlDen(a), FlDen(a) * FlDen(b))

FlSub(a, b) == FlRound(FlNum(a) * FlDen(b) - FlNum(b) * FlDen(a), FlDen(a) * FlDen(b))

FlMul(a, b) == FlRound(FlNum(a) * FlNum(b), FlDen(a) * FlDen(b))

\* int / int true division
IntTrueDiv(i, j) == FlRound(i, j)

\* a <= b on floats
FlLeq(a, b) == FlNum(a) * FlDen(b) <= FlNum(b) * FlDen(a)

\* the positive floats in [2^-3, 1], and 0
FloatValues ==
    {FlZero, <<Pow2(FloatBits - 1), -(FloatBits - 1)>>}
    \cup {<<m, e>> : m \in Pow2(FloatBits - 1)..(Pow2(FloatBits) - 1),
                     e \in (-(FloatBits + 2))..(-FloatBits)}

(***************************************************************************)
(* Text: a Python str is a sequence of tokens.  Str operations used by the *)
(* code, at token granularity.                                             *)
(***************************************************************************)
Whitespace == {" ", "\n", "\r", "\t"}

\* tok in text
Contains(text, tok) == \E i \in 1..Len(text) : text[i] = tok

\* text.index(tok), 0 when absent
IndexOf(text, tok) ==
    IF Contains(text, tok)
    THEN CHOOSE i \in 1..Len(text) : text[i] = tok /\ \A j \in 1..(i - 1) : text[j] # tok
    ELSE 0

\* text.replace(tok, by)
RECURSIVE Replace(_, _, _)
Replace(text, tok, by) ==
    IF text = <<>> THEN <<>>
    ELSE (IF Head(text) = tok THEN by ELSE <<Head(text)>>) \o Replace(Tail(text), tok, by)

RECURSIVE LStrip(_)
LStrip(text) ==
    IF text # <<>> /\ Head(text) \in Whitespace THEN LStrip(Tail(text)) ELSE text

RECURSIVE RStrip(_)
RStrip(text) ==
    IF text # <<>> /\ text[Len(text)] \in Whitespace
    THEN RStrip(SubSeq(text, 1, Len(text) - 1)) ELSE text

\* text.strip()
Strip(text) == RStrip(LStrip(text))

\* text.split(tok)[0]
SplitHead(text, tok) ==
    IF Contains(text, tok) THEN SubSeq(text, 1, IndexOf(text, tok) - 1) ELSE text

\* text.split(tok)[1], for a text that contains tok
SplitSecond(text, tok) ==
    SplitHead(SubSeq(text, IndexOf(text, tok) + 1, Len(text)), tok)

\* the number of lines of a file: its "\n" tokens
RECURSIVE CountLines(_)
CountLines(text) ==
    IF text = <<>> THEN 0
    ELSE (IF Head(text) = "\n" THEN 1 ELSE 0) + CountLines(Tail(text))

(***************************************************************************)
(* json.loads / json.dumps on token texts.  A JSON value is a record       *)
(* [t, s, items]: t the Python type, s the text of a str (or the literal   *)
(* of a number), items the elements of a list or the pairs of a dict (a    *)
(* pair holds its key in s and its value in items).                        *)
(***************************************************************************)
JStr(text) == [t |-> "str", s |-> text, items |-> <<>>]

JNull == [t |-> "NoneType", s |-> <<>>, items |-> <<>>]

JNum(tok) == [t |-> "int", s |-> <<tok>>, items |-> <<>>]

JList(items) == [t |-> "list", s |-> <<>>, items |-> items]

JPair(key, val) == [t |-> "pair", s |-> key, items |-> <<val>>]

JDict(pairs) == [t |-> "dict", s |-> <<>>, items |-> pairs]

JsonDigits == {"0", "1", "2", "5"}

JsonFail == [ok |-> FALSE, val |-> JNull, rest |-> <<>>]

JsonOk(val, rest) == [ok |-> TRUE, val |-> val, rest |-> rest]

\* the escape tokens json.dumps writes inside a string literal
JsonEscape(tok) ==
    CASE tok = "\n" -> "\\n"
      [] tok = "\r" -> "\\r"
      [] tok = "\t" -> "\\t"
      [] tok = "\"" -> "\\\""
      [] OTHER -> tok

JsonUnescape(tok) ==
    CASE tok = "\\n" -> "\n"
      [] tok = "\\r" -> "\r"
      [] tok = "\\t" -> "\t"
      [] tok = "\\\"" -> "\""
      [] OTHER -> tok

\* dict insertion: an existing key keeps its place and takes the new value
RECURSIVE DictSet(_, _, _)
DictSet(pairs, key, val) ==
    IF pairs = <<>> THEN <<JPair(key, val)>>
    ELSE IF Head(pairs).s = key THEN <<JPair(key, val)>> \o Tail(pairs)
    ELSE <<Head(pairs)>> \o DictSet(Tail(pairs), key, val)

\* key in d
DictHas(d, key) == \E i \in 1..Len(d.items) : d.items[i].s = key

\* d[key]
DictGet(d, key) ==
    (d.items[CHOOSE i \in 1..Len(d.items) : d.items[i].s = key]).items[1]

\* the body of a string literal, after its opening quote
RECURSIVE ParseStringBody(_, _)
ParseStringBody(text, acc) ==
    IF text = <<>> THEN JsonFail
    ELSE IF Head(text) = "\"" THEN JsonOk(JStr(acc), Tail(text))
    ELSE IF Head(text) \in {"\n", "\r", "\t"} THEN JsonFail
    ELSE ParseStringBody(Tail(text), Append(acc, JsonUnescape(Head(text))))

RECURSIVE ParseValue(_)
RECURSIVE ParseElements(_, _)
RECURSIVE ParseMembers(_, _)

ParseValue(text0) ==
    LET text == LStrip(text0)
    IN  IF text = <<>> THEN JsonFail
        ELSE IF Head(text) = "\"" THEN ParseStringBody(Tail(text), <<>>)
        ELSE IF Head(text) = "null" THEN JsonOk(JNull, Tail(text))
        ELSE IF Head(text) \in JsonDigits THEN JsonOk(JNum(Head(text)), Tail(text))
        ELSE IF Head(text) = "["
             THEN (IF LStrip(Tail(text)) # <<>> /\ Head(LStrip(Tail(text))) = "]"
                   THEN JsonOk(JList(<<>>), Tail(LStrip(Tail(text))))
                   ELSE ParseElements(Tail(text), <<>>))
        ELSE IF Head(text) = "{"
             THEN (IF LStrip(Tail(text)) # <<>> /\ Head(LStrip(Tail(text))) = "}"
                   THEN JsonOk(JDict(<<>>), Tail(LStrip(Tail(text))))
                   ELSE ParseMembers(Tail(text), <<>>))
        ELSE JsonFail

\* value ("," value)* "]"
ParseElements(text, acc) ==
    LET v == ParseValue(text)
        rest == LStrip(v.rest)
    IN  IF ~v.ok \/ rest = <<>> THEN JsonFail
        ELSE IF Head(rest) = "]" THEN JsonOk(JList(Append(acc, v.val)), Tail(rest))
        ELSE IF Head(rest) = "," THEN ParseElements(Tail(rest), Append(acc, v.val))
        ELSE JsonFail

\* string ":" value ("," string ":" value)* "}"
ParseMembers(text0, acc) ==
    LET text == LStrip(text0)
        k == IF text # <<>> /\ Head(text) = "\"" THEN ParseStringBody(Tail(text), <<>>)
             ELSE JsonFail
        colon == LStrip(k.rest)
        v == IF k.ok /\ colon # <<>> /\ Head(colon) = ":" THEN ParseValue(Tail(colon))
             ELSE JsonFail
        rest == LStrip(v.rest)
    IN  IF ~v.ok \/ rest = <<>> THEN JsonFail
        ELSE IF Head(rest) = "}"
             THEN JsonOk(JDict(DictSet(acc, k.val.s, v.val)), Tail(rest))
        ELSE IF Head(rest) = ","
             THEN ParseMembers(Tail(rest), DictSet(acc, k.val.s, v.val))
        ELSE JsonFail

\* json.loads(text): ok is FALSE for a JSONDecodeError
JsonLoads(text) ==
    LET v == ParseValue(text)
    IN  IF v.ok /\ LStrip(v.rest) = <<>> THEN v ELSE JsonFail

\* mutant: string literals are written without escaping
EscapeTextRaw(text) == text

\* the characters of a string literal, escaped
RECURSIVE EscapeText(_)
EscapeText(text) ==
    IF text = <<>> THEN <<>> ELSE <<JsonEscape(Head(text))>> \o EscapeText(Tail(text))

RECURSIVE JsonDumps(_)
RECURSIVE DumpItems(_)

\* the items of a list or dict, separated by ", "
DumpItems(items) ==
    IF items = <<>> THEN <<>>
    ELSE JsonDumps(Head(items))
         \o (IF Tail(items) = <<>> THEN <<>> ELSE <<",", " ">> \o DumpItems(Tail(items)))

\* json.dumps(val)
JsonDumps(val) ==
    CASE val.t = "str" -> <<"\"">> \o EscapeText(val.s) \o <<"\"">>
      [] val.t = "NoneType" -> <<"null">>
      [] val.t = "int" -> val.s
      [] val.t = "list" -> <<"[">> \o DumpItems(val.items) \o <<"]">>
      [] val.t = "pair" -> <<"\"">> \o EscapeText(val.s) \o <<"\"", ":", " ">>
                           \o JsonDumps(val.items[1])
      [] val.t = "dict" -> <<"{">> \o DumpItems(val.items) \o <<"}">>

\* len(val) is defined for str, list and dict; a TypeError otherwise
HasLen(val) == val.t \in {"str", "list", "dict"}

PyLen(val) == IF val.t = "str" THEN Len(val.s) ELSE Len(val.items)

(***************************************************************************)
(* The marker strings of processor.py.                                     *)
(***************************************************************************)
PLACEHOLDER == "{input_request}"

CONTEXT_MARKER == "Context for this dataset:"

JSON_MARKER == "IMPORTANT: Return ONLY the JSON object"

GENERATE_MARKER == "Generate a realistic"

\* "\n\nContext for this dataset: {input_request}"
placeholder_trailer == <<"\n", "\n", CONTEXT_MARKER, " ", PLACEHOLDER>>

json_instructions ==
    <<"\n", " ", "\n", JSON_MARKER,
      " with the messages array containing exactly one user message and one assistant message.",
      "\n", "Do not include any explanations or additional text. The output must be valid JSON.",
      "\n">>

placeholder_input == <<"Create a sample dataset entry relevant to this topic">>

(***************************************************************************)
(* The stored state.                                                       *)
(***************************************************************************)
VARIABLES
    yaml_config,        \* the YAMLConfig document of the store
    sample_responses,   \* the SampleResponse collection, in insertion order
    expander,           \* the process_yaml_config task
    tasks,              \* the generate_sample_response tasks, by position i + 1
    publish,            \* the POST /dataset requests and their upload_dataset tasks
    dataset_file,       \* datasets/<id>.jsonl: [exists, content]
    remote_calls,       \* the calls each publish run made to the remote dataset store
    uuids,              \* how many uuid4 values were drawn
    credentials,        \* Config.FIREWORKS_API_KEY and FIREWORKS_ACCOUNT_ID are set
    download,           \* the status of the last answer of GET /download
    probe               \* input and output of the function under test (pure-function specifications)

vars == <<yaml_config, sample_responses, expander, tasks, publish, dataset_file,
          remote_calls, uuids, credentials, download, probe>>

CONFIG_ID == "cfg1"

SampleIds == 1..MaxSamples

PublishIds == 1..MaxPublishes

NoText == <<"None">>

(***************************************************************************)
(* YAMLConfig (models/YAMLConfig.py) as created by upload_yaml_config.     *)
(***************************************************************************)
NewYAMLConfig(n, template, examples, range) ==
    [ id |-> CONFIG_ID,
      number_of_samples |-> n,
      user_prompt |-> template,
      temperature_range |-> range,
      top_p |-> FlRound(9, 10),
      max_tokens |-> 1024,
      seed_value |-> 42,
      model |-> "gpt-4o-mini",
      output_format |-> "jsonl",
      example_inputs |-> examples,
      dataset_id |-> 0,
      dataset_uploaded |-> FALSE,
      dataset_upload_response |-> [kind |-> "empty"],
      total_responses_generated |-> 0,
      tokens_per_second_sum |-> 0,
      time_to_first_token_sum |-> 0,
      queries_per_second_sum |-> 0,
      average_latency_sum |-> 0,
      total_tokens_sum |-> 0 ]

AggregateFields ==
    {"total_responses_generated", "tokens_per_second_sum", "time_to_first_token_sum",
     "queries_per_second_sum", "average_latency_sum", "total_tokens_sum"}

\* sum / count as the pair <<quotient, remainder>> of the exact division
ExactDiv(sum, count) == <<sum \div count, sum % count>>

\* mutant: the average is taken over the target count
tokens_per_second_over_target(doc) ==
    IF doc.total_responses_generated > 0
    THEN ExactDiv(doc.tokens_per_second_sum, doc.number_of_samples)
    ELSE <<0, 0>>

tokens_per_second(doc) ==
    IF doc.total_responses_generated > 0
    THEN ExactDiv(doc.tokens_per_second_sum, doc.total_responses_generated)
    ELSE <<0, 0>>

time_to_first_token(doc) ==
    IF doc.total_responses_generated > 0
    THEN ExactDiv(doc.time_to_first_token_sum, doc.total_responses_generated)
    ELSE <<0, 0>>

queries_per_second(doc) ==
    IF doc.total_responses_generated > 0
    THEN ExactDiv(doc.queries_per_second_sum, doc.total_responses_generated)
    ELSE <<0, 0>>

average_latency(doc) ==
    IF doc.total_responses_generated > 0
    THEN ExactDiv(doc.average_latency_sum, doc.total_responses_generated)
    ELSE <<0, 0>>

average_tokens(doc) ==
    IF doc.total_responses_generated > 0
    THEN ExactDiv(doc.total_tokens_sum, doc.total_responses_generated)
    ELSE <<0, 0>>

\* mutant: save() writes the whole loaded document back
SaveWholeDocument(stored, local, changed) == local

\* Document.save() of a loaded document: the changed fields are $set, the
\* others are left as stored
SaveDocument(stored, local, changed) ==
    [f \in DOMAIN stored |-> IF f \in changed THEN local[f] ELSE stored[f]]

(***************************************************************************)
(* process_yaml_config: the Job Expander.                                  *)
(***************************************************************************)
\* the example pool, with the fallback for an empty one
ExamplePool(doc) ==
    IF doc.example_inputs = <<>> THEN <<placeholder_input>> ELSE doc.example_inputs

\* mutant: the trailer is appended without looking for the placeholder
RepairTemplateAlways(template) ==
    LET t1 == template \o placeholder_trailer
    IN  IF ~Contains(t1, JSON_MARKER) THEN t1 \o json_instructions ELSE t1

\* the template with the trailer and the instruction block appended when missing
RepairTemplate(template) ==
    LET t1 == IF ~Contains(template, PLACEHOLDER)
              THEN template \o placeholder_trailer ELSE template
    IN  IF ~Contains(t1, JSON_MARKER) THEN t1 \o json_instructions ELSE t1

\* min_temp + (max_temp - min_temp) * (i / max(1, number_of_samples - 1))
Temperature(range, i, n) ==
    FlAdd(range[1], FlMul(FlSub(range[2], range[1]), IntTrueDiv(i, Max(1, n - 1))))

\* selected_input without its surrounding quotes
CleanInput(selected) ==
    IF selected # <<>> /\ Head(selected) = "\"" /\ selected[Len(selected)] = "\""
    THEN SubSeq(selected, 2, Len(selected) - 1) ELSE selected

CompletePrompt(prompt_template, selected) ==
    Replace(prompt_template, PLACEHOLDER, CleanInput(selected))

\* the arguments of generate_sample_response.delay for position i
WorkItem(doc, prompt_template, i, selected) ==
    [ yaml_config_id |-> doc.id,
      temperature |-> Temperature(doc.temperature_range, i, doc.number_of_samples),
      top_p |-> doc.top_p,
      prompt |-> CompletePrompt(prompt_template, selected),
      max_tokens |-> doc.max_tokens,
      seed_value |-> doc.seed_value,
      model |-> doc.model,
      output_format |-> doc.output_format ]

\* mutant: the loop stops one position early
LoopBoundShort(doc) == doc.number_of_samples - 1

\* range(number_of_samples): the loop goes on while i is below it
LoopBound(doc) == doc.number_of_samples

IdleTask == [pc |-> "none", args |-> <<>>, metrics |-> <<>>, latency_ms |-> 0, result |-> "none"]

\* yaml_config = YAMLConfig.objects.get(id=mongo_id); the template is repaired
ExpanderStart ==
    /\ expander.pc = "queued"
    /\ expander' = [expander EXCEPT !.pc = "loop",
                                    !.doc = yaml_config,
                                    !.prompt_template = RepairTemplate(yaml_config.user_prompt)]
    /\ UNCHANGED <<yaml_config, sample_responses, tasks, publish, dataset_file,
                   remote_calls, uuids, credentials, download, probe>>

\* one iteration of the loop: generate_sample_response.delay(...)
ExpanderDispatch ==
    /\ expander.pc = "loop"
    /\ expander.i < LoopBound(expander.doc)
    /\ \E k \in 1..Len(ExamplePool(expander.doc)) :
          tasks' = [tasks EXCEPT ![expander.i + 1] =
                       [IdleTask EXCEPT !.pc = "queued",
                                        !.args = WorkItem(expander.doc, expander.prompt_template,
                                                          expander.i, ExamplePool(expander.doc)[k])]]
    /\ expander' = [expander EXCEPT !.i = @ + 1]
    /\ UNCHANGED <<yaml_config, sample_responses, publish, dataset_file,
                   remote_calls, uuids, credentials, download, probe>>

\* the loop is over: return True
ExpanderReturn ==
    /\ expander.pc = "loop"
    /\ ~(expander.i < LoopBound(expander.doc))
    /\ expander' = [expander EXCEPT !.pc = "done", !.result = "True"]
    /\ UNCHANGED <<yaml_config, sample_responses, tasks, publish, dataset_file,
                   remote_calls, uuids, credentials, download, probe>>

\* generate_sample_response.delay(...) raises: the except clause returns False
ExpanderFail ==
    /\ expander.pc = "loop"
    /\ expander.i < LoopBound(expander.doc)
    /\ expander' = [expander EXCEPT !.pc = "done", !.result = "False"]
    /\ UNCHANGED <<yaml_config, sample_responses, tasks, publish, dataset_file,
                   remote_calls, uuids, credentials, download, probe>>

(***************************************************************************)
(* generate_sample_response: the Sample Worker.                            *)
(***************************************************************************)
\* a str that is neither None nor empty
Truthy(text) == text # NoText /\ text # <<>>

\* mutant: the text after the marker is not cut at the follow-on phrase
ExtractInputRequestWhole(prompt) ==
    IF Contains(prompt, CONTEXT_MARKER)
    THEN Strip(SplitSecond(prompt, CONTEXT_MARKER))
    ELSE NoText

\* the input request recovered from the rendered prompt, None when the marker is absent
ExtractInputRequest(prompt) ==
    IF Contains(prompt, CONTEXT_MARKER)
    THEN LET first == Strip(SplitSecond(prompt, CONTEXT_MARKER))
         IN  IF Contains(first, GENERATE_MARKER)
             THEN Strip(SplitHead(first, GENERATE_MARKER)) ELSE first
    ELSE NoText

\* what generate_structured_response_with_metrics returns on a backend error
FailureMetrics ==
    [time_to_first_token |-> 0, total_tokens |-> 0, tokens_per_second |-> 0, total_time |-> 0]

FailureResult == [response_text |-> <<>>, metrics |-> FailureMetrics]

Message(role, content) ==
    JDict(<<JPair(<<"role">>, JStr(<<role>>)), JPair(<<"content">>, JStr(<<content>>))>>)

\* '{"messages":[{"role":"user","content":"hi"},{"role":"assistant","content":"hello"}]}'
ValidResponseText ==
    Replace(JsonDumps(JDict(<<JPair(<<"messages">>,
                JList(<<Message("user", "hi"), Message("assistant", "hello")>>))>>)),
            " ", <<>>)

\* '{"messages": null}'
NullMessagesText == <<"{", "\"", "messages", "\"", ":", " ", "null", "}">>

\* 'first line\nsecond line'
PlainResponseText == <<"first line", "\n", "second line">>

\* the returns of the Generation Client, each with the latency the worker measures
\* around it (times in milliseconds)
Generations ==
    { [response_text |-> FailureResult.response_text, metrics |-> FailureResult.metrics,
       latency_ms |-> 250],
      [response_text |-> ValidResponseText,
       metrics |-> [time_to_first_token |-> 100, total_tokens |-> 20,
                    tokens_per_second |-> 50, total_time |-> 400],
       latency_ms |-> 500],
      [response_text |-> NullMessagesText,
       metrics |-> [time_to_first_token |-> 40, total_tokens |-> 4,
                    tokens_per_second |-> 20, total_time |-> 200],
       latency_ms |-> 200],
      [response_text |-> PlainResponseText,
       metrics |-> [time_to_first_token |-> 0, total_tokens |-> 5,
                    tokens_per_second |-> 0, total_time |-> 0],
       latency_ms |-> 0] }

\* SampleResponse(...).save(): the document appended to the collection
SampleRecord(args, g) ==
    [ yaml_config_id |-> args.yaml_config_id,
      temperature |-> args.temperature,
      top_p |-> args.top_p,
      prompt |-> args.prompt,
      input_request |-> ExtractInputRequest(args.prompt),
      max_tokens |-> args.max_tokens,
      seed_value |-> args.seed_value,
      model |-> args.model,
      response_text |-> g.response_text,
      tokens_per_second |-> g.metrics.tokens_per_second,
      time_to_first_token |-> g.metrics.time_to_first_token,
      latency |-> g.latency_ms,
      total_tokens |-> g.metrics.total_tokens ]

\* qps = 1000 / latency_ms if latency_ms > 0 else 0
Qps(latency_ms) == IF latency_ms > 0 THEN 1000 \div latency_ms ELSE 0

\* mutant: the update leaves out inc__total_responses_generated
IncAggregatesNoCount(doc, metrics, latency_ms) ==
    [doc EXCEPT !.tokens_per_second_sum = @ + metrics.tokens_per_second,
                !.time_to_first_token_sum = @ + metrics.time_to_first_token,
                !.queries_per_second_sum = @ + (IF latency_ms > 0 THEN 1000 \div latency_ms ELSE 0),
                !.average_latency_sum = @ + latency_ms,
                !.total_tokens_sum = @ + metrics.total_tokens]

\* mutant: the token sum is written by a second update that is never reached
IncAggregatesPartial(doc, metrics, latency_ms) ==
    [doc EXCEPT !.total_responses_generated = @ + 1,
                !.tokens_per_second_sum = @ + metrics.tokens_per_second,
                !.time_to_first_token_sum = @ + metrics.time_to_first_token,
                !.queries_per_second_sum = @ + (IF latency_ms > 0 THEN 1000 \div latency_ms ELSE 0),
                !.average_latency_sum = @ + latency_ms]

\* update_one(inc__...): the six fields are incremented in one update
IncAggregates(doc, metrics, latency_ms) ==
    [doc EXCEPT !.total_responses_generated = @ + 1,
                !.tokens_per_second_sum = @ + metrics.tokens_per_second,
                !.time_to_first_token_sum = @ + metrics.time_to_first_token,
                !.queries_per_second_sum = @ + Qps(latency_ms),
                !.average_latency_sum = @ + latency_ms,
                !.total_tokens_sum = @ + metrics.total_tokens]

\* the records of one configuration: SampleResponse.objects.filter(yaml_config_id=...)
RECURSIVE SamplesOf(_, _)
SamplesOf(coll, id) ==
    IF coll = <<>> THEN <<>>
    ELSE (IF Head(coll).yaml_config_id = id THEN <<Head(coll)>> ELSE <<>>)
         \o SamplesOf(Tail(coll), id)

\* mutant: the worker goes on to the aggregate update without saving the record
WorkerGenerateUnsaved(i) ==
    /\ tasks[i].pc = "queued"
    /\ \E g \in Generations :
          /\ tasks' = [tasks EXCEPT ![i].pc = "saved",
                                    ![i].metrics = g.metrics,
                                    ![i].latency_ms = g.latency_ms]
          /\ UNCHANGED sample_responses
    /\ UNCHANGED <<yaml_config, expander, publish, dataset_file, remote_calls, uuids,
                   credentials, download, probe>>

\* the client is called, the response is validated (logging only) and the record
\* is saved; an exception on the way returns False
WorkerGenerate(i) ==
    /\ tasks[i].pc = "queued"
    /\ \E g \in Generations :
          \/ /\ sample_responses' = Append(sample_responses, SampleRecord(tasks[i].args, g))
             /\ tasks' = [tasks EXCEPT ![i].pc = "saved",
                                       ![i].metrics = g.metrics,
                                       ![i].latency_ms = g.latency_ms]
          \/ /\ tasks' = [tasks EXCEPT ![i].pc = "done", ![i].result = "False"]
             /\ UNCHANGED sample_responses
    /\ UNCHANGED <<yaml_config, expander, publish, dataset_file, remote_calls, uuids,
                   credentials, download, probe>>

\* the atomic increment, then return True; an exception in it returns False
WorkerUpdate(i) ==
    /\ tasks[i].pc = "saved"
    /\ \/ /\ yaml_config' = IncAggregates(yaml_config, tasks[i].metrics, tasks[i].latency_ms)
          /\ tasks' = [tasks EXCEPT ![i].pc = "done", ![i].result = "True",
                                    ![i].metrics = <<>>, ![i].latency_ms = 0]
       \/ /\ tasks' = [tasks EXCEPT ![i].pc = "done", ![i].result = "False",
                                    ![i].metrics = <<>>, ![i].latency_ms = 0]
          /\ UNCHANGED yaml_config
    /\ UNCHANGED <<sample_responses, expander, publish, dataset_file, remote_calls, uuids,
                   credentials, download, probe>>

(***************************************************************************)
(* The Dataset Materializer (upload_dataset, lines 292-328).               *)
(***************************************************************************)
LooksLikeJson(text) ==
    LET t == Strip(text) IN t # <<>> /\ Head(t) = "{" /\ t[Len(t)] = "}"

FallbackEntry(sample) ==
    JDict(<<JPair(<<"messages">>,
              JList(<<JDict(<<JPair(<<"role">>, JStr(<<"user">>)),
                              JPair(<<"content">>, JStr(sample.input_request))>>),
                      JDict(<<JPair(<<"role">>, JStr(<<"assistant">>)),
                              JPair(<<"content">>, JStr(sample.response_text))>>)>>))>>)

\* mutant: only the newlines are replaced
SanitizeNewlines(text) == Replace(text, "\n", <<" ">>)

\* response_text.replace('\n', ' ').replace('\r', ' ')
Sanitize(text) == Replace(Replace(text, "\n", <<" ">>), "\r", <<" ">>)

\* the fallback of lines 309-322
FallbackLine(sample) ==
    IF Truthy(sample.input_request) /\ Truthy(sample.response_text)
    THEN JsonDumps(FallbackEntry(sample)) \o <<"\n">>
    ELSE Sanitize(sample.response_text) \o <<"\n">>

\* what one iteration of the loop writes; nothing when it raises
MaterializeSample(sample) ==
    IF LooksLikeJson(sample.response_text)
    THEN LET parsed == JsonLoads(sample.response_text)
         IN  IF ~parsed.ok THEN FallbackLine(sample)
             ELSE IF ~DictHas(parsed.val, <<"messages">>) THEN FallbackLine(sample)
             ELSE IF ~HasLen(DictGet(parsed.val, <<"messages">>)) THEN <<>>
             ELSE IF PyLen(DictGet(parsed.val, <<"messages">>)) = 2
                  THEN JsonDumps(parsed.val) \o <<"\n">>
             ELSE FallbackLine(sample)
    ELSE FallbackLine(sample)

\* mutant: a sample that raises ends the loop
RECURSIVE MaterializeAbort(_)
MaterializeAbort(samples) ==
    IF samples = <<>> THEN <<>>
    ELSE IF MaterializeSample(Head(samples)) = <<>> THEN <<>>
    ELSE MaterializeSample(Head(samples)) \o MaterializeAbort(Tail(samples))

\* the loop over the samples: what the file holds when it is closed
RECURSIVE Materialize(_)
Materialize(samples) ==
    IF samples = <<>> THEN <<>>
    ELSE MaterializeSample(Head(samples)) \o Materialize(Tail(samples))

(***************************************************************************)
(* POST /dataset/{config_id} (routes.py) and the upload_dataset task.      *)
(***************************************************************************)
IdlePublish ==
    [pc |-> "idle", doc |-> <<>>, sample_count |-> 0, create_response |-> "none",
     upload_response |-> "none", result |-> "none"]

NotConfiguredResponse == [kind |-> "error", error |-> "API credentials not configured"]

CreateErrorResponse == [kind |-> "error", error |-> "create"]

\* os.path.join("datasets", f"{yaml_config_id}.jsonl")
DatasetPath == <<"datasets/", CONFIG_ID, ".jsonl">>

CombinedResponse(creation, upload, id) ==
    [kind |-> "combined", creation |-> creation, upload |-> upload,
     file_path |-> DatasetPath, dataset_id |-> id]

\* the request arrives: the config is loaded and its samples are counted;
\* without samples it ends with status 400
HandlerLoad(p) ==
    /\ publish[p].pc = "idle"
    /\ IF Len(SamplesOf(sample_responses, CONFIG_ID)) = 0
       THEN publish' = [publish EXCEPT ![p].pc = "done", ![p].result = "400"]
       ELSE publish' = [publish EXCEPT ![p].pc = "h_loaded", ![p].doc = yaml_config]
    /\ UNCHANGED <<yaml_config, sample_responses, expander, tasks, dataset_file,
                   remote_calls, uuids, credentials, download, probe>>

\* a dataset id is drawn and saved if none is set; the task is sent
HandlerSend(p) ==
    /\ publish[p].pc = "h_loaded"
    /\ IF publish[p].doc.dataset_id = 0
       THEN /\ yaml_config' = SaveDocument(yaml_config,
                                  [publish[p].doc EXCEPT !.dataset_id = uuids + 1],
                                  {"dataset_id"})
            /\ uuids' = uuids + 1
       ELSE UNCHANGED <<yaml_config, uuids>>
    /\ publish' = [publish EXCEPT ![p].pc = "t_queued", ![p].doc = <<>>]
    /\ UNCHANGED <<sample_responses, expander, tasks, dataset_file, remote_calls,
                   credentials, download, probe>>

\* upload_dataset starts: yaml_config = YAMLConfig.objects.get(id=yaml_config_id)
TaskLoad(p) ==
    /\ publish[p].pc = "t_queued"
    /\ publish' = [publish EXCEPT ![p].pc = "t_loaded", ![p].doc = yaml_config]
    /\ UNCHANGED <<yaml_config, sample_responses, expander, tasks, dataset_file,
                   remote_calls, uuids, credentials, download, probe>>

\* mutant: the samples are removed from the collection once they are written
TaskWriteFileConsume(p) ==
    /\ publish[p].pc = "t_loaded"
    /\ dataset_file' = [exists |-> TRUE,
                        content |-> Materialize(SamplesOf(sample_responses, CONFIG_ID))]
    /\ publish' = [publish EXCEPT ![p].pc = "t_written",
                                  ![p].sample_count = Len(SamplesOf(sample_responses, CONFIG_ID))]
    /\ sample_responses' = <<>>
    /\ UNCHANGED <<yaml_config, expander, tasks, remote_calls, uuids,
                   credentials, download, probe>>

\* the dataset file is opened for writing and one entry per sample is written
TaskWriteFile(p) ==
    /\ publish[p].pc = "t_loaded"
    /\ dataset_file' = [exists |-> TRUE,
                        content |-> Materialize(SamplesOf(sample_responses, CONFIG_ID))]
    /\ publish' = [publish EXCEPT ![p].pc = "t_written",
                                  ![p].sample_count = Len(SamplesOf(sample_responses, CONFIG_ID))]
    /\ UNCHANGED <<yaml_config, sample_responses, expander, tasks, remote_calls, uuids,
                   credentials, download, probe>>

\* mutant: without credentials the task returns without recording anything
TaskNotConfiguredSilent(p) ==
    /\ publish[p].pc = "t_written"
    /\ ~credentials
    /\ publish' = [publish EXCEPT ![p].pc = "done", ![p].doc = <<>>,
                                  ![p].result = "file_created_only"]
    /\ UNCHANGED <<yaml_config, sample_responses, expander, tasks, dataset_file, remote_calls,
                   uuids, credentials, download, probe>>

\* without credentials the publish is skipped and recorded on the config
TaskNotConfigured(p) ==
    /\ publish[p].pc = "t_written"
    /\ ~credentials
    /\ yaml_config' = SaveDocument(yaml_config,
                          [publish[p].doc EXCEPT !.dataset_uploaded = FALSE,
                                                 !.dataset_upload_response = NotConfiguredResponse],
                          {"dataset_uploaded", "dataset_upload_response"})
    /\ publish' = [publish EXCEPT ![p].pc = "done", ![p].doc = <<>>,
                                  ![p].result = "file_created_only"]
    /\ UNCHANGED <<sample_responses, expander, tasks, dataset_file, remote_calls, uuids,
                   credentials, download, probe>>

\* with credentials: a dataset id is drawn and saved if none is set
TaskDatasetId(p) ==
    /\ publish[p].pc = "t_written"
    /\ credentials
    /\ IF publish[p].doc.dataset_id = 0
       THEN /\ yaml_config' = SaveDocument(yaml_config,
                                  [publish[p].doc EXCEPT !.dataset_id = uuids + 1],
                                  {"dataset_id"})
            /\ publish' = [publish EXCEPT ![p].pc = "t_ready",
                                          ![p].doc.dataset_id = uuids + 1]
            /\ uuids' = uuids + 1
       ELSE /\ publish' = [publish EXCEPT ![p].pc = "t_ready"]
            /\ UNCHANGED <<yaml_config, uuids>>
    /\ UNCHANGED <<sample_responses, expander, tasks, dataset_file, remote_calls,
                   credentials, download, probe>>

\* mutant: the error envelope of create_dataset is saved and the task goes on
TaskCreateContinue(p) ==
    /\ publish[p].pc = "t_ready"
    /\ remote_calls' = [remote_calls EXCEPT ![p] = Append(@, "create")]
    /\ \/ /\ publish' = [publish EXCEPT ![p].pc = "t_created", ![p].create_response = "ok"]
          /\ UNCHANGED yaml_config
       \/ /\ yaml_config' = SaveDocument(yaml_config,
                                [publish[p].doc EXCEPT !.dataset_upload_response = CreateErrorResponse],
                                {"dataset_upload_response"})
          /\ publish' = [publish EXCEPT ![p].pc = "t_created", ![p].create_response = "error"]
    /\ UNCHANGED <<sample_responses, expander, tasks, dataset_file, uuids, credentials, download, probe>>

\* client.create_dataset: an error envelope is saved on the config and returned;
\* an exception that leaves the client reaches the except clause of the task, which
\* returns {"error": ...} and saves nothing
TaskCreate(p) ==
    /\ publish[p].pc = "t_ready"
    /\ remote_calls' = [remote_calls EXCEPT ![p] = Append(@, "create")]
    /\ \/ /\ publish' = [publish EXCEPT ![p].pc = "t_created", ![p].create_response = "ok"]
          /\ UNCHANGED yaml_config
       \/ /\ yaml_config' = SaveDocument(yaml_config,
                                [publish[p].doc EXCEPT !.dataset_upload_response = CreateErrorResponse],
                                {"dataset_upload_response"})
          /\ publish' = [publish EXCEPT ![p].pc = "done", ![p].doc = <<>>,
                                        ![p].create_response = "error",
                                        ![p].result = "create_error"]
       \/ /\ publish' = [publish EXCEPT ![p].pc = "done", ![p].doc = <<>>,
                                        ![p].create_response = "raised",
                                        ![p].result = "exception"]
          /\ UNCHANGED yaml_config
    /\ UNCHANGED <<sample_responses, expander, tasks, dataset_file, uuids, credentials, download, probe>>

\* mutant: the combined response is saved without the upload flag
TaskUploadNoFlag(p) ==
    /\ publish[p].pc = "t_created"
    /\ remote_calls' = [remote_calls EXCEPT ![p] = Append(@, "upload")]
    /\ \E upload_response \in {"ok", "error"} :
          /\ yaml_config' = SaveDocument(yaml_config,
                                [publish[p].doc EXCEPT
                                    !.dataset_upload_response =
                                        CombinedResponse(publish[p].create_response, upload_response,
                                                         publish[p].doc.dataset_id)],
                                {"dataset_upload_response"})
          /\ publish' = [publish EXCEPT ![p].pc = "done", ![p].doc = <<>>,
                                        ![p].upload_response = upload_response,
                                        ![p].result = "response"]
    /\ UNCHANGED <<sample_responses, expander, tasks, dataset_file, uuids, credentials, download, probe>>

\* client.upload_dataset, then the config is marked uploaded with the combined
\* response; an exception that leaves the client reaches the except clause of the
\* task, which returns {"error": ...} and saves nothing
TaskUpload(p) ==
    /\ publish[p].pc = "t_created"
    /\ remote_calls' = [remote_calls EXCEPT ![p] = Append(@, "upload")]
    /\ \/ \E upload_response \in {"ok", "error"} :
             /\ yaml_config' = SaveDocument(yaml_config,
                                   [publish[p].doc EXCEPT
                                       !.dataset_uploaded = TRUE,
                                       !.dataset_upload_response =
                                           CombinedResponse(publish[p].create_response,
                                                            upload_response,
                                                            publish[p].doc.dataset_id)],
                                   {"dataset_uploaded", "dataset_upload_response"})
             /\ publish' = [publish EXCEPT ![p].pc = "done", ![p].doc = <<>>,
                                           ![p].upload_response = upload_response,
                                           ![p].result = "response"]
       \/ /\ publish' = [publish EXCEPT ![p].pc = "done", ![p].doc = <<>>,
                                        ![p].upload_response = "raised",
                                        ![p].result = "exception"]
          /\ UNCHANGED yaml_config
    /\ UNCHANGED <<sample_responses, expander, tasks, dataset_file, uuids, credentials, download, probe>>

(***************************************************************************)
(* GET /download/{config_id} (routes.py).                                  *)
(***************************************************************************)
NoDownload == "none"

\* the file is created from the samples only when it does not exist yet, and is
\* then returned; without samples the request ends with status 400
DownloadDataset ==
    /\ IF Len(SamplesOf(sample_responses, CONFIG_ID)) = 0
       THEN /\ download' = "400"
            /\ UNCHANGED dataset_file
       ELSE /\ dataset_file' =
                  IF ~dataset_file.exists
                  THEN [exists |-> TRUE,
                        content |-> Materialize(SamplesOf(sample_responses, CONFIG_ID))]
                  ELSE dataset_file
            /\ download' = "200"
    /\ UNCHANGED <<yaml_config, sample_responses, expander, tasks, publish, remote_calls,
                   uuids, credentials, probe>>

(***************************************************************************)
(* The pipeline: a configuration was uploaded and process_yaml_config was  *)
(* sent for it.                                                            *)
(***************************************************************************)
\* a template with the placeholder after the context marker, as in YAML_STRUCTURE_GUIDE
GuideTemplate ==
    <<"You are creating a synthetic dataset for AI training.", "\n",
      CONTEXT_MARKER, " ", PLACEHOLDER, "\n", "\n",
      GENERATE_MARKER, " user request AND an ideal assistant response.", "\n",
      JSON_MARKER, " with the messages array.">>

\* a template with the placeholder and no context marker
BareTemplate == <<"Write one training example about", " ", PLACEHOLDER>>

Templates == {GuideTemplate, BareTemplate}

ExampleInputs == <<<<"refund policy question">>, <<"\"", "password reset", "\"">>>>

\* [0.7, 1.0], the default of upload_yaml_config
DefaultTemperatureRange == <<FlRound(7, 10), FlRound(1, 1)>>

\* the state after upload_yaml_config stored a configuration and sent process_yaml_config
InitWith(sizes, templates, pools, creds) ==
    /\ \E n \in sizes, template \in templates, pool \in pools :
          yaml_config = NewYAMLConfig(n, template, pool, DefaultTemperatureRange)
    /\ sample_responses = <<>>
    /\ expander = [pc |-> "queued", i |-> 0, doc |-> <<>>, prompt_template |-> <<>>,
                   result |-> "none"]
    /\ tasks = [i \in SampleIds |-> IdleTask]
    /\ publish = [p \in PublishIds |-> IdlePublish]
    /\ dataset_file = [exists |-> FALSE, content |-> <<>>]
    /\ remote_calls = [p \in PublishIds |-> <<>>]
    /\ uuids = 0
    /\ credentials \in creds
    /\ download = NoDownload

Init ==
    /\ InitWith(1..MaxSamples, Templates, {ExampleInputs}, BOOLEAN)
    /\ probe = <<>>

Next ==
    \/ ExpanderStart
    \/ ExpanderDispatch
    \/ ExpanderReturn
    \/ ExpanderFail
    \/ \E i \in SampleIds : WorkerGenerate(i)
    \/ \E i \in SampleIds : WorkerUpdate(i)
    \/ \E p \in PublishIds : HandlerLoad(p)
    \/ \E p \in PublishIds : HandlerSend(p)
    \/ \E p \in PublishIds : TaskLoad(p)
    \/ \E p \in PublishIds : TaskWriteFile(p)
    \/ \E p \in PublishIds : TaskNotConfigured(p)
    \/ \E p \in PublishIds : TaskDatasetId(p)
    \/ \E p \in PublishIds : TaskCreate(p)
    \/ \E p \in PublishIds : TaskUpload(p)

Spec == Init /\ [][Next]_vars

(***************************************************************************)
(* The generation half alone: the expander and its workers.                *)
(***************************************************************************)
InitGenerate ==
    /\ InitWith(1..MaxSamples, Templates, {ExampleInputs}, {FALSE})
    /\ probe = <<>>

NextGenerate ==
    \/ ExpanderStart
    \/ ExpanderDispatch
    \/ ExpanderReturn
    \/ ExpanderFail
    \/ \E i \in SampleIds : WorkerGenerate(i)
    \/ \E i \in SampleIds : WorkerUpdate(i)

SpecGenerate == InitGenerate /\ [][NextGenerate]_vars

(***************************************************************************)
(* Publishing while samples are still being generated.                     *)
(***************************************************************************)
InitPublish ==
    /\ InitWith(1..MaxPublishedSamples, {GuideTemplate}, {<<ExampleInputs[1]>>}, BOOLEAN)
    /\ probe = <<>>

SpecPublish == InitPublish /\ [][Next]_vars

(***************************************************************************)
(* Materialization by the upload_dataset task and by the download          *)
(* endpoint, while samples are being generated.                            *)
(***************************************************************************)
InitDownload ==
    /\ InitWith(1..MaxSamples, {BareTemplate}, {<<ExampleInputs[1]>>}, {FALSE})
    /\ probe = <<>>

NextDownload ==
    \/ ExpanderStart
    \/ ExpanderDispatch
    \/ ExpanderReturn
    \/ ExpanderFail
    \/ \E i \in SampleIds : WorkerGenerate(i)
    \/ \E i \in SampleIds : WorkerUpdate(i)
    \/ \E p \in PublishIds : HandlerLoad(p)
    \/ \E p \in PublishIds : HandlerSend(p)
    \/ \E p \in PublishIds : TaskLoad(p)
    \/ \E p \in PublishIds : TaskWriteFile(p)
    \/ \E p \in PublishIds : TaskNotConfigured(p)
    \/ DownloadDataset

SpecDownload == InitDownload /\ [][NextDownload]_vars

(***************************************************************************)
(* Every operation that reads the Sample Records: generation, one publish  *)
(* request with credentials, and the download endpoint.                    *)
(***************************************************************************)
InitRecords ==
    /\ InitWith(1..MaxPublishedSamples, {BareTemplate}, {<<ExampleInputs[1]>>}, {TRUE})
    /\ probe = <<>>

NextRecords ==
    \/ ExpanderStart
    \/ ExpanderDispatch
    \/ ExpanderReturn
    \/ ExpanderFail
    \/ \E i \in SampleIds : WorkerGenerate(i)
    \/ \E i \in SampleIds : WorkerUpdate(i)
    \/ HandlerLoad(1)
    \/ HandlerSend(1)
    \/ TaskLoad(1)
    \/ TaskWriteFile(1)
    \/ TaskDatasetId(1)
    \/ TaskCreate(1)
    \/ TaskUpload(1)
    \/ DownloadDataset

SpecRecords == InitRecords /\ [][NextRecords]_vars

(***************************************************************************)
(* The prompt repair of process_yaml_config, applied to a template and     *)
(* then to its own result.  probe holds the template, the number of        *)
(* applications and the result of each.                                    *)
(***************************************************************************)
TemplateTokens == {PLACEHOLDER, JSON_MARKER, CONTEXT_MARKER, "Write one example.", "\n"}

UserPrompts == UNION {[1..k -> TemplateTokens] : k \in 0..MaxTemplateLen}

InitRepair ==
    /\ InitWith({1}, {GuideTemplate}, {<<>>}, {FALSE})
    /\ \E template \in UserPrompts :
          probe = [user_prompt |-> template, prompt_template |-> template, repairs |-> <<>>]

\* the two if statements of the repair, on the current prompt_template
RepairStep ==
    /\ Len(probe.repairs) < 2
    /\ LET repaired == RepairTemplate(probe.prompt_template)
       IN  probe' = [probe EXCEPT !.prompt_template = repaired,
                                  !.repairs = Append(@, repaired)]
    /\ UNCHANGED <<yaml_config, sample_responses, expander, tasks, publish, dataset_file,
                   remote_calls, uuids, credentials, download>>

SpecRepair == InitRepair /\ [][RepairStep]_vars

(***************************************************************************)
(* POST /upload (upload_yaml_config in routes.py).  probe holds the        *)
(* configuration collection, the process_yaml_config messages sent, and    *)
(* the file and the answer of the last request.  A file is what the        *)
(* handler distinguishes in it: too large, not UTF-8, not YAML, YAML that   *)
(* loads to a falsy value, YAML that loads to something that is not a      *)
(* mapping, or a mapping, given by the values of the keys the handler      *)
(* reads (Absent for a key that is not there).                             *)
(***************************************************************************)
Absent == <<"absent">>

\* the values of number_of_samples in the uploaded mapping: integers and a word
CountValues == {Absent, <<"int", -1>>, <<"int", 0>>, <<"int", 1>>, <<"int", 2>>, <<"str", "many">>}

\* the values of sampling_parameters.temperature_range: none, [], [0.7, 1.0],
\* [1.0, 0.5], [0.5, 0.5]
RangeValues ==
    {Absent, <<>>, DefaultTemperatureRange, <<FlRound(1, 1), FlRound(1, 2)>>,
     <<FlRound(1, 2), FlRound(1, 2)>>}

UploadFiles ==
    {[kind |-> k] : k \in {"oversized", "undecodable", "unparsable", "empty", "not_mapping"}}
    \cup {[kind |-> "mapping", user_prompt |-> u, number_of_samples |-> n,
           temperature_range |-> r, required_criteria |-> c] :
             u \in {Absent, GuideTemplate}, n \in CountValues, r \in RangeValues,
             c \in {Absent, <<"polite">>}}

NoError == "none"

\* mutant: the presence of user_prompt is not checked
UploadErrorNoPrompt(file) ==
    IF file.kind = "oversized" THEN "File too large"
    ELSE IF file.kind = "undecodable" THEN "Invalid file encoding. Please use UTF-8"
    ELSE IF file.kind = "unparsable" THEN "Invalid YAML format"
    ELSE IF file.kind = "empty" THEN "Empty YAML file"
    ELSE IF file.kind = "not_mapping" THEN "Missing required field: user_prompt"
    ELSE IF file.number_of_samples = Absent THEN "Missing required field: number_of_samples"
    ELSE NoError

\* the checks of the handler, in order: the detail of the first HTTPException raised
UploadError(file) ==
    IF file.kind = "oversized" THEN "File too large"
    ELSE IF file.kind = "undecodable" THEN "Invalid file encoding. Please use UTF-8"
    ELSE IF file.kind = "unparsable" THEN "Invalid YAML format"
    ELSE IF file.kind = "empty" THEN "Empty YAML file"
    ELSE IF file.kind = "not_mapping" THEN "Missing required field: user_prompt"
    ELSE IF file.user_prompt = Absent THEN "Missing required field: user_prompt"
    ELSE IF file.number_of_samples = Absent THEN "Missing required field: number_of_samples"
    ELSE NoError

\* the YAMLConfig document the handler builds from a mapping that passed the checks
UploadedConfig(file, id) ==
    [NewYAMLConfig(file.number_of_samples[2],
                   file.user_prompt,
                   <<>>,
                   IF file.temperature_range \in {Absent, <<>>} THEN DefaultTemperatureRange
                   ELSE file.temperature_range)
       EXCEPT !.id = id]

\* Document.save() validates the fields: IntField takes what int() takes, and the
\* required list required_criteria may not be empty
DocumentError(file) ==
    IF file.number_of_samples[1] # "int" THEN "number_of_samples could not be converted to int"
    ELSE IF file.required_criteria = Absent THEN "Field is required and cannot be empty: required_criteria"
    ELSE NoError

InitUpload ==
    /\ InitWith({1}, {GuideTemplate}, {<<>>}, {FALSE})
    /\ probe = [configs |-> <<>>, sent |-> <<>>, file |-> <<>>, response |-> <<>>]

\* the handler: an HTTPException raised by a check, and an exception of the save, are
\* caught by the handler's "except Exception" and answered with status 500
UploadYamlConfig ==
    /\ Len(probe.configs) < MaxUploads
    /\ \E file \in UploadFiles :
          LET id == Len(probe.configs) + 1
              error == IF UploadError(file) # NoError THEN UploadError(file)
                       ELSE DocumentError(file)
          IN  IF error # NoError
              THEN probe' = [probe EXCEPT !.file = file,
                                          !.response = [status |-> 500, detail |-> error]]
              ELSE probe' = [configs |-> Append(probe.configs, UploadedConfig(file, id)),
                             sent |-> Append(probe.sent, id),
                             file |-> file,
                             response |-> [status |-> 200, config_id |-> id]]
    /\ UNCHANGED <<yaml_config, sample_responses, expander, tasks, publish, dataset_file,
                   remote_calls, uuids, credentials, download>>

SpecUpload == InitUpload /\ [][UploadYamlConfig]_vars

(***************************************************************************)
(* One publish request, with or without credentials, while samples are     *)
(* being generated: the handler, the upload_dataset task and its calls to  *)
(* the remote dataset store.                                                *)
(***************************************************************************)
InitRemote ==
    /\ InitWith(1..MaxPublishedSamples, {GuideTemplate}, {<<ExampleInputs[1]>>}, BOOLEAN)
    /\ probe = <<>>

NextRemote ==
    \/ ExpanderStart
    \/ ExpanderDispatch
    \/ ExpanderReturn
    \/ ExpanderFail
    \/ \E i \in SampleIds : WorkerGenerate(i)
    \/ \E i \in SampleIds : WorkerUpdate(i)
    \/ HandlerLoad(1)
    \/ HandlerSend(1)
    \/ TaskLoad(1)
    \/ TaskWriteFile(1)
    \/ TaskNotConfigured(1)
    \/ TaskDatasetId(1)
    \/ TaskCreate(1)
    \/ TaskUpload(1)

SpecRemote == InitRemote /\ [][NextRemote]_vars

(***************************************************************************)
(* The temperature schedule of process_yaml_config as a function of the    *)
(* range and the number of samples: probe.temps[i + 1] is the temperature  *)
(* of position i.                                                          *)
(***************************************************************************)
InitTemperature ==
    /\ InitWith({1}, {GuideTemplate}, {<<>>}, {FALSE})
    /\ \E lo \in FloatValues, hi \in FloatValues, n \in 1..MaxTempSamples :
          /\ FlLeq(lo, hi)
          /\ probe = [range |-> <<lo, hi>>, n |-> n, temps |-> <<>>]

\* the next iteration of the loop computes its temperature
TemperatureStep ==
    /\ Len(probe.temps) < probe.n
    /\ probe' = [probe EXCEPT !.temps = Append(@, Temperature(probe.range, Len(probe.temps), probe.n))]
    /\ UNCHANGED <<yaml_config, sample_responses, expander, tasks, publish, dataset_file,
                   remote_calls, uuids, credentials, download>>

SpecTemperature == InitTemperature /\ [][TemperatureStep]_vars

(***************************************************************************)
(* The Generation Client (llm_client.py): generate_response_with_metrics   *)
(* and generate_structured_response_with_metrics consume the stream of one *)
(* backend call.  probe holds the stream (each chunk with the clock tick   *)
(* at which it arrives), the number of chunks received and the locals of   *)
(* the call; probe.chars is 4 * total_tokens, first_token_time is <<>> for *)
(* None and <<t>> once set, and tokens_per_second is in eighths of a token *)
(* per tick (exact for the times of ClientTimes).                          *)
(***************************************************************************)
ClientMethods == {"generate_response_with_metrics", "generate_structured_response_with_metrics"}

\* delta.content of a chunk: None, "", or some text
ChunkContents == {NoText, <<>>, <<"h", "e", "l", "l">>, <<"o">>}

ClientTimes == {0, 2}

Streams ==
    {stream \in UNION {[1..k -> [content : ChunkContents, at : ClientTimes]] : k \in 0..MaxChunks} :
        \A k \in 1..(Len(stream) - 1) : stream[k].at <= stream[k + 1].at}

\* mutant: the except clause returns the text received so far
ClientFailurePartial(locals) == [response_text |-> locals.response_text, metrics |-> FailureMetrics]

\* the except clause: return "", {all-zero metrics}
ClientFailure(locals) == FailureResult

\* the metrics compiled at the end of the stream
ClientMetrics(locals, total_time) ==
    [ time_to_first_token |-> IF locals.first_token_time = <<>> THEN total_time
                              ELSE locals.first_token_time[1],
      total_tokens |-> locals.chars \div 4,
      tokens_per_second |-> IF total_time > 0 THEN (2 * locals.chars) \div total_time ELSE 0,
      total_time |-> total_time ]

InitClient ==
    /\ InitWith({1}, {GuideTemplate}, {<<>>}, {FALSE})
    /\ \E method \in ClientMethods, stream \in Streams :
          probe = [method |-> method, pc |-> "start", stream |-> stream, received |-> 0,
                   response_text |-> <<>>, chars |-> 0, first_token_time |-> <<>>,
                   failed |-> FALSE, result |-> <<>>]

\* self.client.chat.completions.create(...): the stream is opened, or the call raises
ClientRequest ==
    /\ probe.pc = "start"
    /\ \/ probe' = [probe EXCEPT !.pc = "stream"]
       \/ probe' = [probe EXCEPT !.pc = "returned", !.failed = TRUE,
                                 !.result = ClientFailure(probe)]
    /\ UNCHANGED <<yaml_config, sample_responses, expander, tasks, publish, dataset_file,
                   remote_calls, uuids, credentials, download>>

\* one iteration of "for chunk in response", or the iteration raises
ClientChunk ==
    /\ probe.pc = "stream"
    /\ probe.received < Len(probe.stream)
    /\ \/ LET chunk == probe.stream[probe.received + 1]
              content == chunk.content
              now == chunk.at
          IN  probe' = [probe EXCEPT
                     !.received = @ + 1,
                     !.first_token_time = IF @ = <<>> THEN <<now>> ELSE @,
                     !.response_text = IF Truthy(content) THEN @ \o content ELSE @,
                     !.chars = IF Truthy(content) THEN @ + Len(content) ELSE @]
       \/ probe' = [probe EXCEPT !.pc = "returned", !.failed = TRUE,
                                 !.result = ClientFailure(probe)]
    /\ UNCHANGED <<yaml_config, sample_responses, expander, tasks, publish, dataset_file,
                   remote_calls, uuids, credentials, download>>

\* the stream is exhausted: return response_text, metrics
ClientFinish ==
    /\ probe.pc = "stream"
    /\ probe.received = Len(probe.stream)
    /\ \E total_time \in ClientTimes :
          /\ probe.stream # <<>> => probe.stream[Len(probe.stream)].at <= total_time
          /\ probe' = [probe EXCEPT !.pc = "returned",
                                    !.result = [response_text |-> probe.response_text,
                                                metrics |-> ClientMetrics(probe, total_time)]]
    /\ UNCHANGED <<yaml_config, sample_responses, expander, tasks, publish, dataset_file,
                   remote_calls, uuids, credentials, download>>

NextClient ==
    \/ ClientRequest
    \/ ClientChunk
    \/ ClientFinish

SpecClient == InitClient /\ [][NextClient]_vars

(***************************************************************************)
(* The materialization loop as a function of the Sample Records it reads:  *)
(* probe.samples are the records of the configuration, probe.file is the   *)
(* file the loop leaves.                                                   *)
(***************************************************************************)
\* values of the "messages" key: two-element arrays, and values of other shapes
MessagesValues ==
    { JList(<<Message("user", "hi"), Message("assistant", "hello")>>),
      JList(<<Message("user", "hi"),
              JDict(<<JPair(<<"role">>, JStr(<<"assistant">>)),
                      JPair(<<"content">>, JStr(<<"two", "\n", "lines", "\"">>))>>)>>),
      JList(<<JNum("1"), JNull>>),
      JList(<<Message("user", "hi")>>),
      JList(<<>>),
      JNull,
      JNum("5") }

ResponseObjects ==
    {JDict(<<JPair(<<"messages">>, m)>>) : m \in MessagesValues}
    \cup {JDict(<<JPair(<<"id">>, JNum("2")), JPair(<<"messages">>, m)>>) : m \in MessagesValues}

\* '\n {"messages": [{"role": "user"}, "two\\nlines\\""]}\n', with the escapes written out
EscapedResponseText ==
    <<"\n", " ", "{", "\"", "messages", "\"", ":", " ", "[",
      "{", "\"", "role", "\"", ":", " ", "\"", "user", "\"", "}", ",", " ",
      "\"", "two", "\\n", "lines", "\\\"", "\"", "]", "}", "\n">>

\* response texts that are JSON objects, as json.dumps writes them and in compact
\* form surrounded by whitespace
JsonResponseTexts ==
    {JsonDumps(obj) : obj \in ResponseObjects}
    \cup {EscapedResponseText}
    \cup {<<"\n", " ">> \o Replace(JsonDumps(obj), " ", <<>>) \o <<"\n">> : obj \in ResponseObjects}

\* response texts json.loads rejects, or that do not look like an object
PlainResponseTexts ==
    { PlainResponseText,
      <<"{", "not json", "\r", "\n", "}">>,
      <<"first", "\r", "\n", "second", "\n">>,
      <<"{", "\"", "messages", "\"", ":", "[", "]">> }

ResponseTexts == JsonResponseTexts \cup PlainResponseTexts

InputRequests == {NoText, <<"refund policy question">>}

InitMaterializer ==
    /\ InitWith({1}, {GuideTemplate}, {<<>>}, {FALSE})
    /\ \E k \in 1..MaxBatch, input_request \in InputRequests :
          \E texts \in [1..k -> ResponseTexts] :
              probe = [samples |-> [i \in 1..k |-> [response_text |-> texts[i],
                                                     input_request |-> input_request]],
                       pc |-> "open", file |-> <<>>]

\* with open(dataset_path, 'w') as f: for idx, sample in enumerate(samples): ...
MaterializerRun ==
    /\ probe.pc = "open"
    /\ probe' = [probe EXCEPT !.pc = "written", !.file = Materialize(probe.samples)]
    /\ UNCHANGED <<yaml_config, sample_responses, expander, tasks, publish, dataset_file,
                   remote_calls, uuids, credentials, download>>

SpecMaterializer == InitMaterializer /\ [][MaterializerRun]_vars

(***************************************************************************)
(* One run of generate_sample_response, statement by statement.  probe     *)
(* holds the prompt argument, the locals of the task, the number of calls  *)
(* of the Generation Client, the SampleResponse documents saved and the    *)
(* return value.                                                           *)
(***************************************************************************)
PromptTokens == {CONTEXT_MARKER, GENERATE_MARKER, "refund policy question", " "}

WorkerPrompts == UNION {[1..k -> PromptTokens] : k \in 0..MaxPromptLen}

\* what the client returns: "", objects with and without a messages array, texts
\* json.loads rejects and texts that do not look like an object
WorkerResponseTexts ==
    {<<>>}
    \cup {JsonDumps(JDict(<<JPair(<<"messages">>, m)>>)) : m \in MessagesValues}
    \cup {JsonDumps(JDict(<<JPair(<<"id">>, JNum("2"))>>))}
    \cup PlainResponseTexts

WorkerGenerations ==
    {[response_text |-> text,
      metrics |-> IF text = <<>> THEN FailureMetrics
                  ELSE [time_to_first_token |-> 100, total_tokens |-> 20,
                        tokens_per_second |-> 50, total_time |-> 400],
      latency_ms |-> 500] : text \in WorkerResponseTexts}

\* mutant: a response without two messages is an error
ValidateResponseStrict(response_text) ==
    IF LooksLikeJson(response_text)
    THEN LET parsed_response == JsonLoads(response_text)
         IN  IF ~parsed_response.ok THEN "raises"
             ELSE IF DictHas(parsed_response.val, <<"messages">>)
                     /\ DictGet(parsed_response.val, <<"messages">>).t = "list"
                  THEN IF PyLen(DictGet(parsed_response.val, <<"messages">>)) = 2
                       THEN "correct structure" ELSE "raises"
             ELSE "raises"
    ELSE "already processed"

\* the validation block: the line it prints
ValidateResponse(response_text) ==
    IF LooksLikeJson(response_text)
    THEN LET parsed_response == JsonLoads(response_text)
         IN  IF ~parsed_response.ok THEN "could not parse"
             ELSE IF DictHas(parsed_response.val, <<"messages">>)
                     /\ DictGet(parsed_response.val, <<"messages">>).t = "list"
                  THEN IF PyLen(DictGet(parsed_response.val, <<"messages">>)) = 2
                       THEN "correct structure" ELSE "wrong message count"
             ELSE "missing messages array"
    ELSE "already processed"

\* the arguments of the task for a prompt
WorkerArgs(prompt) ==
    [WorkItem(yaml_config, <<>>, 0, <<>>) EXCEPT !.prompt = prompt]

InitWorker ==
    /\ InitWith({1}, {GuideTemplate}, {<<>>}, {FALSE})
    /\ \E prompt \in WorkerPrompts :
          probe = [prompt |-> prompt, pc |-> "start", input_request |-> NoText,
                   calls |-> 0, generation |-> <<>>, printed |-> "none",
                   saved |-> <<>>, result |-> "none"]

\* input_request = None; if the marker is in the prompt: the two splits
WorkerExtract ==
    /\ probe.pc = "start"
    /\ probe' = [probe EXCEPT !.pc = "call",
                              !.input_request = ExtractInputRequest(probe.prompt)]
    /\ UNCHANGED <<yaml_config, sample_responses, expander, tasks, publish, dataset_file,
                   remote_calls, uuids, credentials, download>>

\* llm_client.generate_structured_response_with_metrics(...)
WorkerCall ==
    /\ probe.pc = "call"
    /\ \E g \in WorkerGenerations :
          probe' = [probe EXCEPT !.pc = "validate", !.calls = @ + 1, !.generation = g]
    /\ UNCHANGED <<yaml_config, sample_responses, expander, tasks, publish, dataset_file,
                   remote_calls, uuids, credentials, download>>

\* the try block around json.loads; an exception other than JSONDecodeError reaches
\* the except clause of the task
WorkerValidate ==
    /\ probe.pc = "validate"
    /\ LET printed == ValidateResponse(probe.generation.response_text)
       IN  IF printed = "raises"
           THEN probe' = [probe EXCEPT !.pc = "done", !.result = "False"]
           ELSE probe' = [probe EXCEPT !.pc = "save", !.printed = printed]
    /\ UNCHANGED <<yaml_config, sample_responses, expander, tasks, publish, dataset_file,
                   remote_calls, uuids, credentials, download>>

\* SampleResponse(...).save(), or the save raises
WorkerSave ==
    /\ probe.pc = "save"
    /\ \/ probe' = [probe EXCEPT
                        !.pc = "saved",
                        !.saved = Append(@, SampleRecord(WorkerArgs(probe.prompt),
                                                         probe.generation))]
       \/ probe' = [probe EXCEPT !.pc = "done", !.result = "False"]
    /\ UNCHANGED <<yaml_config, sample_responses, expander, tasks, publish, dataset_file,
                   remote_calls, uuids, credentials, download>>

\* update_one(inc__...) and return True
WorkerReturn ==
    /\ probe.pc = "saved"
    /\ probe' = [probe EXCEPT !.pc = "done", !.result = "True"]
    /\ UNCHANGED <<yaml_config, sample_responses, expander, tasks, publish, dataset_file,
                   remote_calls, uuids, credentials, download>>

NextWorker ==
    \/ WorkerExtract
    \/ WorkerCall
    \/ WorkerValidate
    \/ WorkerSave
    \/ WorkerReturn

SpecWorker == InitWorker /\ [][NextWorker]_vars

(***************************************************************************)
(* ResponseStructure (models/ResponseStructure.py): the validation of a    *)
(* value {"messages": ...}.  The validator runs in mode 'before', on the   *)
(* value as the caller passed it: an entry of messages is a Message        *)
(* instance or a dict that was not validated yet.  probe holds the value   *)
(* and the outcome: "accepted", or the exception that leaves the call.     *)
(***************************************************************************)
RoleType == {"user", "assistant"}

\* an entry of the messages list: a Message instance, or a dict with a role key
MessageEntries ==
    {[form |-> "Message", role |-> role] : role \in RoleType}
    \cup {[form |-> "dict", role |-> role] : role \in RoleType \cup {"system"}}

\* values.get('messages'): None for a value without the key, or the list of entries
MessagesInputs ==
    {[given |-> FALSE, items |-> <<>>]}
    \cup {[given |-> TRUE, items |-> items] :
             items \in UNION {[1..k -> MessageEntries] : k \in 0..MaxMessages}}

\* entry.role: a dict has no attribute role
RoleOf(entry) == IF entry.form = "Message" THEN entry.role ELSE "AttributeError"

\* the validator: "ok" when it returns the values, or the exception it raises
check_user_assistant_pairs(messages) ==
    IF ~messages.given THEN "TypeError"
    ELSE IF Len(messages.items) # 2 THEN "ValueError"
    ELSE IF RoleOf(messages.items[1]) = "AttributeError" THEN "AttributeError"
    ELSE IF RoleOf(messages.items[1]) # "user" THEN "ValueError"
    ELSE IF RoleOf(messages.items[2]) = "AttributeError" THEN "AttributeError"
    ELSE IF RoleOf(messages.items[2]) # "assistant" THEN "ValueError"
    ELSE "ok"

\* ResponseStructure.model_validate: a ValueError of the validator becomes a
\* ValidationError, another exception leaves the call as it is; then the field
\* messages: List[Message] is validated
ModelValidate(messages) ==
    LET before == check_user_assistant_pairs(messages)
    IN  IF before = "ValueError" THEN "ValidationError"
        ELSE IF before # "ok" THEN before
        ELSE IF \A k \in 1..Len(messages.items) : messages.items[k].role \in RoleType
             THEN "accepted"
        ELSE "ValidationError"

InitSchema ==
    /\ InitWith({1}, {GuideTemplate}, {<<>>}, {FALSE})
    /\ \E messages \in MessagesInputs :
          probe = [messages |-> messages, pc |-> "start", outcome |-> "none"]

SchemaValidate ==
    /\ probe.pc = "start"
    /\ probe' = [probe EXCEPT !.pc = "returned", !.outcome = ModelValidate(probe.messages)]
    /\ UNCHANGED <<yaml_config, sample_responses, expander, tasks, publish, dataset_file,
                   remote_calls, uuids, credentials, download>>

SpecSchema == InitSchema /\ [][SchemaValidate]_vars

(***************************************************************************)
(* The websocket endpoints (api/websockets): /ws/yaml_configs with the     *)
(* ConnectionManager and /ws/config/{config_id}/responses with the         *)
(* SampleResponseConnectionManager.  probe holds the two registries and,   *)
(* for every websocket, the position of its endpoint coroutine, the state  *)
(* of its periodic update task and whether a send to it has failed.        *)
(***************************************************************************)
Sockets == 1..MaxSockets

SocketConfigs == {"cfg1", "cfg2"}

\* the endpoint a websocket connects to, with its config_id
SocketRoutes ==
    {[endpoint |-> "yaml_configs", config_id |-> "none"]}
    \cup {[endpoint |-> "responses", config_id |-> c] : c \in SocketConfigs}

NewSocket ==
    [pc |-> "new", endpoint |-> "none", config_id |-> "none", update_task |-> "none",
     send_failed |-> FALSE]

\* list.remove(x): the first occurrence is taken out
RECURSIVE RemoveFirst(_, _)
RemoveFirst(list, x) ==
    IF list = <<>> THEN <<>>
    ELSE IF Head(list) = x THEN Tail(list)
    ELSE <<Head(list)>> \o RemoveFirst(Tail(list), x)

InList(list, x) == \E k \in 1..Len(list) : list[k] = x

\* SampleResponseConnectionManager.connect, after websocket.accept()
ConfigConnect(connections, config_id, websocket) ==
    [connections EXCEPT ![config_id] = [present |-> TRUE, list |-> Append(@.list, websocket)]]

\* SampleResponseConnectionManager.disconnect
ConfigDisconnect(connections, config_id, websocket) ==
    IF connections[config_id].present
    THEN LET list == IF InList(connections[config_id].list, websocket)
                     THEN RemoveFirst(connections[config_id].list, websocket)
                     ELSE connections[config_id].list
         IN  [connections EXCEPT ![config_id] =
                 IF list = <<>> THEN [present |-> FALSE, list |-> <<>>]
                 ELSE [present |-> TRUE, list |-> list]]
    ELSE connections

\* the disconnect call of an endpoint, on the registry of that endpoint
Disconnected(state, h) ==
    IF state.sockets[h].endpoint = "yaml_configs"
    THEN [state EXCEPT !.active_connections = RemoveFirst(@, h)]
    ELSE [state EXCEPT !.config_connections =
                          ConfigDisconnect(@, state.sockets[h].config_id, h)]

\* update_task.cancel()
Cancelled(update_task) == IF update_task = "running" THEN "cancelled" ELSE update_task

InitSockets ==
    /\ InitWith({1}, {GuideTemplate}, {<<>>}, {FALSE})
    /\ probe = [active_connections |-> <<>>,
                config_connections |-> [c \in SocketConfigs |-> [present |-> FALSE, list |-> <<>>]],
                sockets |-> [h \in Sockets |-> NewSocket]]

\* manager.connect(websocket) at the head of an endpoint
SocketConnect(h) ==
    /\ probe.sockets[h].pc = "new"
    /\ \E route \in SocketRoutes :
          LET socket == [probe.sockets[h] EXCEPT !.pc = "connected",
                                                 !.endpoint = route.endpoint,
                                                 !.config_id = route.config_id]
          IN  probe' = IF route.endpoint = "yaml_configs"
                       THEN [probe EXCEPT !.active_connections = Append(@, h),
                                          !.sockets[h] = socket]
                       ELSE [probe EXCEPT !.config_connections =
                                              ConfigConnect(@, route.config_id, h),
                                          !.sockets[h] = socket]
    /\ UNCHANGED <<yaml_config, sample_responses, expander, tasks, publish, dataset_file,
                   remote_calls, uuids, credentials, download>>

\* the initial send and asyncio.create_task(periodic...); a send that fails, with the
\* send of the error message failing too, reaches the except clause of the endpoint
SocketInitialSend(h) ==
    /\ probe.sockets[h].pc = "connected"
    /\ \/ probe' = [probe EXCEPT !.sockets[h].pc = "listening",
                                 !.sockets[h].update_task = "running"]
       \/ probe' = [Disconnected(probe, h) EXCEPT !.sockets[h].pc = "closed",
                                                  !.sockets[h].send_failed = TRUE]
    /\ UNCHANGED <<yaml_config, sample_responses, expander, tasks, publish, dataset_file,
                   remote_calls, uuids, credentials, download>>

\* the receive loop ends: receive_text raises WebSocketDisconnect (disconnect, then
\* the update task is cancelled), or the send answering a pagination request fails
\* (except Exception: disconnect only)
SocketReceive(h) ==
    /\ probe.sockets[h].pc = "listening"
    /\ \/ probe' = [Disconnected(probe, h) EXCEPT
                        !.sockets[h].pc = "closed",
                        !.sockets[h].update_task = Cancelled(@)]
       \/ probe' = [Disconnected(probe, h) EXCEPT !.sockets[h].pc = "closed",
                                                  !.sockets[h].send_failed = TRUE]
    /\ UNCHANGED <<yaml_config, sample_responses, expander, tasks, publish, dataset_file,
                   remote_calls, uuids, credentials, download>>

\* periodic_updates: a send fails, with the send of the error message failing too:
\* the exception is printed and the loop is left
PeriodicSendFails(h) ==
    /\ probe.sockets[h].update_task = "running"
    /\ probe' = [probe EXCEPT !.sockets[h].update_task = "ended",
                              !.sockets[h].send_failed = TRUE]
    /\ UNCHANGED <<yaml_config, sample_responses, expander, tasks, publish, dataset_file,
                   remote_calls, uuids, credentials, download>>

NextSockets ==
    \/ \E h \in Sockets : SocketConnect(h)
    \/ \E h \in Sockets : SocketInitialSend(h)
    \/ \E h \in Sockets : SocketReceive(h)
    \/ \E h \in Sockets : PeriodicSendFails(h)

SpecSockets == InitSockets /\ [][NextSockets]_vars

(***************************************************************************)
(* Properties.                                                             *)
(***************************************************************************)
Records == SamplesOf(sample_responses, CONFIG_ID)

Succeeded == {i \in SampleIds : tasks[i].result = "True"}

Failed == {i \in SampleIds : tasks[i].result = "False"}

\* no Sample Worker of the configuration is queued or running, none is still to be sent
NoWorkerInFlight ==
    /\ expander.pc = "done"
    /\ \A i \in SampleIds : tasks[i].pc \in {"none", "done"}

Aggregates(doc) == [f \in AggregateFields |-> doc[f]]

\* C1: when K workers have run the aggregate update, under every interleaving
\* total_responses_generated is exactly K above its initial 0: no increment is lost.
C1_NoLostIncrement ==
    yaml_config.total_responses_generated = Cardinality(Succeeded)

C1_Witness ==
    /\ Cardinality(Succeeded) >= 2
    /\ yaml_config.total_responses_generated >= 2

\* C2: whenever no worker of the configuration is in flight, total_responses_generated
\* equals the number of its persisted Sample Records, also after failed workers.
C2_CountEqualsRecords ==
    NoWorkerInFlight => yaml_config.total_responses_generated = Len(Records)

\* C3: a run ends with True or False, and a run that ended with False left no Sample
\* Record behind: the records are those of the runs that succeeded or are at the update.
C3_FailedRunLeavesNothing ==
    /\ \A i \in SampleIds : tasks[i].pc = "done" => tasks[i].result \in {"True", "False"}
    /\ Len(Records) = Cardinality({i \in SampleIds : tasks[i].pc = "saved"} \cup Succeeded)

\* C4: every step either leaves the six aggregate fields as they are or adds the whole
\* contribution of one worker that was at its update; a successful update adds it, a
\* failed update changes none of the six.
C4_AtomicAggregateUpdate ==
    [][ /\ \/ Aggregates(yaml_config') = Aggregates(yaml_config)
           \/ \E i \in SampleIds :
                 /\ tasks[i].pc = "saved"
                 /\ tasks'[i].result = "True"
                 /\ yaml_config'.total_responses_generated
                       = yaml_config.total_responses_generated + 1
                 /\ yaml_config'.tokens_per_second_sum
                       = yaml_config.tokens_per_second_sum + tasks[i].metrics.tokens_per_second
                 /\ yaml_config'.time_to_first_token_sum
                       = yaml_config.time_to_first_token_sum + tasks[i].metrics.time_to_first_token
                 /\ yaml_config'.average_latency_sum
                       = yaml_config.average_latency_sum + tasks[i].latency_ms
                 /\ yaml_config'.total_tokens_sum
                       = yaml_config.total_tokens_sum + tasks[i].metrics.total_tokens
                 /\ IF tasks[i].latency_ms > 0
                    THEN (yaml_config'.queries_per_second_sum - yaml_config.queries_per_second_sum)
                            * tasks[i].latency_ms = 1000
                    ELSE yaml_config'.queries_per_second_sum = yaml_config.queries_per_second_sum
        /\ \A i \in SampleIds :
              (tasks[i].pc = "saved" /\ tasks'[i].result = "False")
                  => Aggregates(yaml_config') = Aggregates(yaml_config)
        /\ \A i \in SampleIds :
              (tasks[i].pc = "saved" /\ tasks'[i].result = "True")
                  => yaml_config'.total_responses_generated
                        = yaml_config.total_responses_generated + 1
      ]_vars

\* an update failed after another sample's increments were applied
C4_Witness ==
    /\ Failed # {}
    /\ Succeeded # {}
    /\ Len(Records) = 2
    /\ yaml_config.total_responses_generated = 1
    /\ yaml_config.total_tokens_sum > 0

Dispatched == {i \in SampleIds : tasks[i].pc # "none"}

\* C5: the expander submits one work item per position and never more than
\* number_of_samples, and it has returned True only when exactly number_of_samples
\* were submitted; a run in which no submission raised returns True.
C5_ExactlyNItems ==
    /\ Dispatched = 1..expander.i
    /\ Cardinality(Dispatched) <= yaml_config.number_of_samples
    /\ expander.result = "True" =>
          Cardinality(Dispatched) = yaml_config.number_of_samples
    /\ (expander.pc = "done" /\ Cardinality(Dispatched) = yaml_config.number_of_samples)
          => expander.result = "True"

C5_Witness ==
    /\ expander.pc = "done"
    /\ expander.result = "True"
    /\ yaml_config.number_of_samples >= 2
    /\ Cardinality(Dispatched) >= 2

\* C6: position 0 has temperature min, and for N >= 2 position N-1 has temperature max.
C6_EndpointsExact ==
    /\ Len(probe.temps) >= 1 => probe.temps[1] = probe.range[1]
    /\ (probe.n >= 2 /\ Len(probe.temps) = probe.n) => probe.temps[probe.n] = probe.range[2]

\* C7: once the expander has run and all N workers have returned True, the counter is N
\* and a dataset file written from then on has exactly N lines.
C7_EndToEnd ==
    (/\ expander.pc = "done"
     /\ \A i \in 1..yaml_config.number_of_samples : tasks[i].result = "True")
    => /\ yaml_config.total_responses_generated = yaml_config.number_of_samples
       /\ \A p \in PublishIds :
             (/\ publish[p].pc \in {"t_written", "t_ready", "t_created", "done"}
              /\ publish[p].result # "400"
              /\ publish[p].sample_count = yaml_config.number_of_samples)
             => CountLines(dataset_file.content) = yaml_config.number_of_samples

\* C8: under every interleaving of the workers with the publish handler and the
\* upload_dataset task, no step lowers total_responses_generated or a running sum.
C8_AggregatesNeverDecrease ==
    [][\A f \in AggregateFields : yaml_config'[f] >= yaml_config[f]]_vars

\* the handler has saved, and the task is about to save from a copy loaded before
\* the latest increment
C8_Witness ==
    \E p \in PublishIds :
        /\ publish[p].pc = "t_written"
        /\ yaml_config.dataset_id # 0
        /\ publish[p].doc.total_responses_generated < yaml_config.total_responses_generated
        /\ publish[p].doc.total_tokens_sum < yaml_config.total_tokens_sum

AverageIs(avg, sum, count) ==
    IF count > 0
    THEN avg[1] * count + avg[2] = sum /\ 0 <= avg[2] /\ avg[2] < count
    ELSE avg = <<0, 0>>

AverageNames ==
    {"tokens_per_second", "time_to_first_token", "queries_per_second", "average_latency",
     "average_tokens"}

\* C9: each derived average of the stored configuration is its running sum divided by
\* total_responses_generated, and 0 when that count is 0; the document stores no average.
C9_AveragesDerived ==
    LET count == yaml_config.total_responses_generated
    IN  /\ AverageIs(tokens_per_second(yaml_config), yaml_config.tokens_per_second_sum, count)
        /\ AverageIs(time_to_first_token(yaml_config), yaml_config.time_to_first_token_sum, count)
        /\ AverageIs(queries_per_second(yaml_config), yaml_config.queries_per_second_sum, count)
        /\ AverageIs(average_latency(yaml_config), yaml_config.average_latency_sum, count)
        /\ AverageIs(average_tokens(yaml_config), yaml_config.total_tokens_sum, count)
        /\ AverageNames \cap DOMAIN yaml_config = {}

\* two samples whose average is not a whole number
C9_Witness ==
    /\ yaml_config.total_responses_generated = 2
    /\ average_tokens(yaml_config)[2] # 0
    /\ tokens_per_second(yaml_config)[1] > 0

\* C10: no Sample Record is persisted for the failure signal of the Generation Client
\* (empty text with all-zero metrics).
C10_NoRecordForFailure ==
    \A k \in 1..Len(sample_responses) :
        ~(/\ sample_responses[k].response_text = <<>>
          /\ sample_responses[k].tokens_per_second = 0
          /\ sample_responses[k].time_to_first_token = 0
          /\ sample_responses[k].total_tokens = 0)

\* C11: no step of the workers, the expander, the upload_dataset task (file and
\* remote publish) or the download endpoint changes or removes a persisted Sample
\* Record: the collection only grows at its end.
C11_RecordsWriteOnce ==
    [][ /\ Len(sample_responses') >= Len(sample_responses)
        /\ \A k \in 1..Len(sample_responses) : sample_responses'[k] = sample_responses[k]
      ]_vars

\* a record that went through a materialization by the task, a remote publish and
\* a download
C11_Witness ==
    /\ Len(sample_responses) >= 1
    /\ dataset_file.exists
    /\ download = "200"
    /\ publish[1].result = "response"
    /\ \E k \in 1..Len(remote_calls[1]) : remote_calls[1][k] = "upload"

\* C12: a call of either client method in which the request or the stream raised,
\* also after chunks were received, returns exactly the failure signal: the empty
\* text with the four all-zero metrics; every call returns a (text, metrics) pair.
C12_FailureSignal ==
    probe.pc = "returned" =>
        /\ DOMAIN probe.result = {"response_text", "metrics"}
        /\ DOMAIN probe.result.metrics
               = {"time_to_first_token", "total_tokens", "tokens_per_second", "total_time"}
        /\ probe.failed =>
              /\ probe.result.response_text = <<>>
              /\ \A m \in DOMAIN probe.result.metrics : probe.result.metrics[m] = 0

\* the stream raised after text had been received
C12_Witness ==
    /\ probe.pc = "returned"
    /\ probe.failed
    /\ probe.received >= 1
    /\ probe.response_text # <<>>
    /\ probe.method = "generate_structured_response_with_metrics"

\* C13: every materialization, by the upload_dataset task or by a served download,
\* leaves the file equal to the materialization of the Sample Records present at
\* that invocation (the file is regenerated: overwritten, never appended to or reused).
C13_MaterializationRegenerates ==
    [][ /\ \A p \in PublishIds :
              (publish[p].pc = "t_loaded" /\ publish'[p].pc = "t_written")
                  => /\ dataset_file'.exists
                     /\ dataset_file'.content = Materialize(Records)
        /\ (download # "200" /\ download' = "200")
              => /\ dataset_file'.exists
                 /\ dataset_file'.content = Materialize(Records)
      ]_vars

\* response_text is a JSON object whose "messages" is a two-element array
TwoMessageObject(text) ==
    /\ LooksLikeJson(text)
    /\ JsonLoads(text).ok
    /\ DictHas(JsonLoads(text).val, <<"messages">>)
    /\ DictGet(JsonLoads(text).val, <<"messages">>).t = "list"
    /\ Len(DictGet(JsonLoads(text).val, <<"messages">>).items) = 2

\* exactly one line: a single newline, at the end, and no carriage return
OneLine(line) ==
    /\ line # <<>>
    /\ line[Len(line)] = "\n"
    /\ \A k \in 1..(Len(line) - 1) : line[k] \notin {"\n", "\r"}

\* C14: a Sample Record whose response_text is a JSON object with a two-element
\* messages array materializes to exactly one line, and json.loads of that line is
\* the structure json.loads gives for response_text.
C14_RoundTrip ==
    probe.pc = "written" =>
        \A i \in 1..Len(probe.samples) :
            TwoMessageObject(probe.samples[i].response_text) =>
                LET line == MaterializeSample(probe.samples[i])
                IN  /\ OneLine(line)
                    /\ JsonLoads(line).ok
                    /\ JsonLoads(line).val = JsonLoads(probe.samples[i].response_text).val

\* a written file whose only record is such an object with an escaped newline and
\* quote in a message, spread over several lines of response_text
C14_Witness ==
    /\ probe.pc = "written"
    /\ Len(probe.samples) = 1
    /\ TwoMessageObject(probe.samples[1].response_text)
    /\ Contains(probe.samples[1].response_text, "\\n")
    /\ Head(probe.samples[1].response_text) = "\n"
    /\ OneLine(probe.file)

\* json.loads rejects the text
Unparsable(text) == ~JsonLoads(text).ok

HasLineBreak(text) == Contains(text, "\n") \/ Contains(text, "\r")

\* line is text with each newline and carriage return replaced by a space, and a
\* final newline
SpacedOut(text, line) ==
    /\ Len(line) = Len(text) + 1
    /\ line[Len(line)] = "\n"
    /\ \A k \in 1..Len(text) :
          line[k] = IF text[k] \in {"\n", "\r"} THEN " " ELSE text[k]

\* C15 as stated: an unparsable response_text with embedded newlines or carriage
\* returns materializes to exactly one line, the text with each of them replaced
\* by a space.
C15_FallbackSanitized ==
    probe.pc = "written" =>
        \A i \in 1..Len(probe.samples) :
            LET text == probe.samples[i].response_text
                line == MaterializeSample(probe.samples[i])
            IN  (Unparsable(text) /\ HasLineBreak(text))
                    => OneLine(line) /\ SpacedOut(text, line)

\* C15, amended: such a record materializes to exactly one line; when it has a
\* non-empty input_request the line is the JSON object whose messages are the input
\* request (user) and the unchanged response text (assistant), otherwise it is the
\* text with each newline and carriage return replaced by a space.
C15_FallbackLine ==
    probe.pc = "written" =>
        \A i \in 1..Len(probe.samples) :
            LET text == probe.samples[i].response_text
                request == probe.samples[i].input_request
                line == MaterializeSample(probe.samples[i])
            IN  (Unparsable(text) /\ HasLineBreak(text))
                    => /\ OneLine(line)
                       /\ IF request # NoText /\ request # <<>>
                          THEN /\ JsonLoads(line).ok
                               /\ JsonLoads(line).val =
                                     JDict(<<JPair(<<"messages">>, JList(<<
                                         JDict(<<JPair(<<"role">>, JStr(<<"user">>)),
                                                 JPair(<<"content">>, JStr(request))>>),
                                         JDict(<<JPair(<<"role">>, JStr(<<"assistant">>)),
                                                 JPair(<<"content">>, JStr(text))>>)>>))>>)
                          ELSE SpacedOut(text, line)

\* a written file of one record without input request whose text looks like an
\* object, is rejected by json.loads and holds a carriage return and a newline
C15_Witness ==
    /\ probe.pc = "written"
    /\ Len(probe.samples) = 1
    /\ probe.samples[1].input_request = NoText
    /\ LooksLikeJson(probe.samples[1].response_text)
    /\ Unparsable(probe.samples[1].response_text)
    /\ Contains(probe.samples[1].response_text, "\r")
    /\ Contains(probe.samples[1].response_text, "\n")
    /\ OneLine(probe.file)

\* processing the record raises inside the loop: len() of a "messages" value that
\* has no length
RaisesInLoop(sample) ==
    /\ LooksLikeJson(sample.response_text)
    /\ JsonLoads(sample.response_text).ok
    /\ DictHas(JsonLoads(sample.response_text).val, <<"messages">>)
    /\ DictGet(JsonLoads(sample.response_text).val, <<"messages">>).t \in {"NoneType", "int"}

RECURSIVE ConcatLines(_)
ConcatLines(samples) ==
    IF samples = <<>> THEN <<>>
    ELSE MaterializeSample(Head(samples)) \o ConcatLines(Tail(samples))

\* C16: the loop always ends with a written file; a record whose processing raises
\* contributes nothing and does not end the loop: the file holds, in order, exactly
\* one line for every other record.
C16_BadSampleDoesNotAbort ==
    probe.pc = "written" =>
        LET others == SelectSeq(probe.samples, LAMBDA s : ~RaisesInLoop(s))
        IN  /\ \A k \in 1..Len(others) : OneLine(MaterializeSample(others[k]))
            /\ probe.file = ConcatLines(others)
            /\ CountLines(probe.file) = Len(others)

\* a record that raises, followed by one that does not: the file has the line of
\* the second
C16_Witness ==
    /\ probe.pc = "written"
    /\ Len(probe.samples) = 2
    /\ RaisesInLoop(probe.samples[1])
    /\ ~RaisesInLoop(probe.samples[2])
    /\ CountLines(probe.file) = 1

\* the remote calls a publish run has made
CallsBy(p, call) == {k \in 1..Len(remote_calls[p]) : remote_calls[p][k] = call}

\* C17: a run issues its upload call only after its create call returned without
\* error; a run whose create call returned an error envelope stores that envelope in
\* dataset_upload_response, leaves dataset_uploaded as it is, ends, and never uploads.
C17_UploadOnlyAfterCreate ==
    [][ \A p \in PublishIds :
          /\ (Len(remote_calls'[p]) > Len(remote_calls[p])
                 /\ remote_calls'[p][Len(remote_calls'[p])] = "upload")
                => /\ publish[p].create_response = "ok"
                   /\ CallsBy(p, "create") # {}
          /\ (publish[p].pc = "t_ready" /\ publish'[p].create_response = "error")
                => /\ publish'[p].pc = "done"
                   /\ yaml_config'.dataset_upload_response = [kind |-> "error", error |-> "create"]
                   /\ yaml_config'.dataset_uploaded = yaml_config.dataset_uploaded
          /\ publish[p].create_response = "error"
                => /\ publish'[p] = publish[p]
                   /\ CallsBy(p, "upload") = {}
      ]_vars

\* a run ended on the error envelope of its create call
C17_Witness ==
    \E p \in PublishIds :
        /\ publish[p].result = "create_error"
        /\ CallsBy(p, "create") # {}
        /\ CallsBy(p, "upload") = {}
        /\ yaml_config.dataset_upload_response = [kind |-> "error", error |-> "create"]
        /\ ~yaml_config.dataset_uploaded

\* C18: the step in which the upload call of a run succeeds, after its create call
\* succeeded, leaves dataset_uploaded true and dataset_upload_response equal to the
\* combined payload: creation response, upload response, file path and dataset id.
C18_SuccessRecorded ==
    [][ \A p \in PublishIds :
          (publish[p].pc = "t_created" /\ publish'[p].upload_response = "ok")
            => /\ publish[p].create_response = "ok"
               /\ yaml_config'.dataset_uploaded = TRUE
               /\ yaml_config'.dataset_upload_response =
                     [kind |-> "combined", creation |-> "ok", upload |-> "ok",
                      file_path |-> <<"datasets/", yaml_config.id, ".jsonl">>,
                      dataset_id |-> publish[p].doc.dataset_id]
               /\ publish[p].doc.dataset_id # 0
      ]_vars

\* a run whose two calls succeeded has ended
C18_Witness ==
    \E p \in PublishIds :
        /\ publish[p].pc = "done"
        /\ publish[p].create_response = "ok"
        /\ publish[p].upload_response = "ok"
        /\ yaml_config.dataset_uploaded
        /\ yaml_config.dataset_upload_response.kind = "combined"
        /\ yaml_config.dataset_upload_response.upload = "ok"

\* C19: without credentials no remote call is ever made, and a run that has written
\* the file ends with the skipped result: in that step the file is already there and
\* is left alone, dataset_uploaded is false and dataset_upload_response is the
\* 'not configured' response.
C19_NotConfiguredShortCircuit ==
    [][ /\ ~credentials => \A p \in PublishIds : remote_calls'[p] = <<>>
        /\ \A p \in PublishIds :
              /\ (~credentials /\ publish[p].pc = "t_written" /\ publish'[p] # publish[p])
                    => publish'[p].result = "file_created_only"
              /\ (publish[p].pc # "done" /\ publish'[p].result = "file_created_only")
                    => /\ ~credentials
                       /\ publish'[p].pc = "done"
                       /\ dataset_file.exists
                       /\ dataset_file' = dataset_file
                       /\ yaml_config'.dataset_uploaded = FALSE
                       /\ yaml_config'.dataset_upload_response =
                             [kind |-> "error", error |-> "API credentials not configured"]
      ]_vars

\* a run was skipped for missing credentials
C19_Witness ==
    \E p \in PublishIds :
        /\ ~credentials
        /\ publish[p].result = "file_created_only"
        /\ dataset_file.exists
        /\ remote_calls[p] = <<>>
        /\ yaml_config.dataset_upload_response.kind = "error"
        /\ Len(Records) >= 1

\* C20: a run that ends on a failed remote call (error envelope of create or upload,
\* or an exception raised during either call) has the failure recorded in
\* dataset_upload_response; remote calls are made only with the file written, and no
\* step of the remote publish changes or removes the file.
C20_PublishFailuresRecorded ==
    [][ \A p \in PublishIds :
          /\ (publish[p].pc \in {"t_ready", "t_created"} /\ publish'[p].pc = "done"
                 /\ publish'[p].upload_response # "ok")
                => \/ yaml_config'.dataset_upload_response = [kind |-> "error", error |-> "create"]
                   \/ /\ yaml_config'.dataset_upload_response.kind = "combined"
                      /\ yaml_config'.dataset_upload_response.upload = "error"
          /\ publish[p].pc \in {"t_ready", "t_created"}
                => dataset_file.exists /\ dataset_file' = dataset_file
      ]_vars


\* the uploads the handler is to reject: the file cannot be decoded or parsed, is
\* empty or too large, or lacks user_prompt or number_of_samples
FailsInputValidation(file) ==
    \/ file.kind \in {"oversized", "undecodable", "unparsable", "empty"}
    \/ /\ file.kind = "mapping"
       /\ (file.user_prompt = Absent \/ file.number_of_samples = Absent)

\* C21: an upload that fails input validation is answered with an error, stores no
\* configuration and sends no process_yaml_config message.
C21_InvalidUploadRejected ==
    [][ (probe' # probe /\ FailsInputValidation(probe'.file))
          => /\ probe'.response.status >= 400
             /\ probe'.configs = probe.configs
             /\ probe'.sent = probe.sent
      ]_vars

\* after one configuration was stored, an upload without user_prompt was rejected
C21_Witness ==
    /\ probe.file # <<>>
    /\ probe.file.kind = "mapping"
    /\ probe.file.user_prompt = Absent
    /\ probe.response.status = 500
    /\ Len(probe.configs) = 1
    /\ probe.sent = <<1>>

\* C22: every stored configuration has number_of_samples >= 1 and a temperature
\* range [min, max] with min <= max.
C22_StoredConfigsWellFormed ==
    \A k \in 1..Len(probe.configs) :
        /\ probe.configs[k].number_of_samples >= 1
        /\ FlLeq(probe.configs[k].temperature_range[1], probe.configs[k].temperature_range[2])


\* C23: the prompt repair is idempotent: repairing a repaired template returns it
\* unchanged.
C23_RepairIdempotent ==
    Len(probe.repairs) = 2 => probe.repairs[2] = probe.repairs[1]

\* a template without placeholder and without instruction marker was repaired twice,
\* and the first repair appended both blocks
C23_Witness ==
    /\ Len(probe.repairs) = 2
    /\ ~Contains(probe.user_prompt, PLACEHOLDER)
    /\ ~Contains(probe.user_prompt, JSON_MARKER)
    /\ probe.repairs[1] = probe.user_prompt \o placeholder_trailer \o json_instructions
    /\ probe.repairs[2] = probe.repairs[1]


\* C24: whatever the validation finds in a non-failure response text, the worker goes
\* on to the save, the client is called once, and a record that was saved is the only
\* one and holds the raw text.
C24_ValidationNeverBlocks ==
    /\ probe.calls <= 1
    /\ Len(probe.saved) <= 1
    /\ (probe.pc = "done" /\ probe.result = "False" /\ probe.generation # <<>>)
          => probe.printed # "none"
    /\ probe.pc \in {"saved", "done"} /\ probe.result # "False"
          => /\ Len(probe.saved) = 1
             /\ probe.saved[1].response_text = probe.generation.response_text

\* a response with a wrong message count was saved as it came
C24_Witness ==
    /\ probe.result = "True"
    /\ probe.printed = "wrong message count"
    /\ Len(probe.saved) = 1
    /\ probe.saved[1].response_text = probe.generation.response_text
    /\ probe.generation.response_text # <<>>


\* the text after the first occurrence of tok
After(text, tok) == SubSeq(text, IndexOf(text, tok) + 1, Len(text))

\* the text before the first token of toks, the whole text when there is none
RECURSIVE Before(_, _)
Before(text, toks) ==
    IF text = <<>> \/ Head(text) \in toks THEN <<>>
    ELSE <<Head(text)>> \o Before(Tail(text), toks)

\* the extraction went through, and what it found is what a saved record holds
ExtractionNotFatal ==
    /\ probe.pc = "done" /\ probe.result = "False" => probe.calls = 1
    /\ \A k \in 1..Len(probe.saved) : probe.saved[k].input_request = probe.input_request

\* C25 as stated: without the marker input_request stays None and the worker goes on;
\* with the marker it is the text after the marker up to the follow-on phrase.
C25_TextUpToPhrase ==
    probe.pc # "start"
      => /\ ExtractionNotFatal
         /\ probe.input_request =
               IF Contains(probe.prompt, CONTEXT_MARKER)
               THEN Strip(Before(After(probe.prompt, CONTEXT_MARKER), {GENERATE_MARKER}))
               ELSE NoText

\* C25, amended: without the marker input_request stays None and the worker goes on;
\* with the marker it is the text after the first marker up to the next occurrence of
\* the marker or of the follow-on phrase, stripped.
C25_TextUpToPhraseOrMarker ==
    probe.pc # "start"
      => /\ ExtractionNotFatal
         /\ probe.input_request =
               IF Contains(probe.prompt, CONTEXT_MARKER)
               THEN Strip(Before(After(probe.prompt, CONTEXT_MARKER),
                                 {GENERATE_MARKER, CONTEXT_MARKER}))
               ELSE NoText

\* a record was saved with the text between the marker and the follow-on phrase
C25_Witness ==
    /\ probe.result = "True"
    /\ probe.prompt = <<CONTEXT_MARKER, "refund policy question", GENERATE_MARKER>>
    /\ Len(probe.saved) = 1
    /\ probe.saved[1].input_request = <<"refund policy question">>


\* the chunks of a stream that carry content
NonEmptyChunks(stream) == {k \in 1..Len(stream) : Truthy(stream[k].content)}

\* the first of a non-empty set of positions
First(positions) == CHOOSE k \in positions : \A j \in positions : k <= j

\* C26: a call that returns its metrics reports as time_to_first_token the arrival
\* time of the first chunk with non-empty content, and the total elapsed time when no
\* chunk arrived at all.
C26_FirstNonEmptyChunk ==
    (probe.pc = "returned" /\ ~probe.failed)
      => /\ NonEmptyChunks(probe.stream) # {}
               => probe.result.metrics.time_to_first_token
                     = probe.stream[First(NonEmptyChunks(probe.stream))].at
         /\ probe.stream = <<>>
               => probe.result.metrics.time_to_first_token = probe.result.metrics.total_time


\* a messages value with exactly two entries, the first with role user and the
\* second with role assistant
UserAssistantPair(messages) ==
    /\ messages.given
    /\ Len(messages.items) = 2
    /\ messages.items[1].role = "user"
    /\ messages.items[2].role = "assistant"

\* C27: the validation accepts a value exactly when its messages list is a user
\* message followed by an assistant message, and rejects every other value with a
\* validation error.
C27_AcceptsExactlyPairs ==
    probe.pc = "returned"
      => /\ probe.outcome = "accepted" <=> UserAssistantPair(probe.messages)
         /\ probe.outcome # "accepted" => probe.outcome = "ValidationError"


\* the handles a registry holds
Registered ==
    {h \in Sockets : InList(probe.active_connections, h)}
    \cup {h \in Sockets : \E c \in SocketConfigs : InList(probe.config_connections[c].list, h)}

\* the live subscribers: connected, not disconnected, and no send to them has failed
Live ==
    {h \in Sockets : /\ probe.sockets[h].pc \in {"connected", "listening"}
                     /\ ~probe.sockets[h].send_failed}

\* how often a handle occurs in a list
Occurrences(list, h) == Cardinality({k \in 1..Len(list) : list[k] = h})

\* C28: the registries hold exactly the live handles, each once and under its own
\* configuration id, and the per-configuration registry has no empty list.
C28_RegistryHoldsLiveHandles ==
    /\ Registered = Live
    /\ \A h \in Sockets :
          /\ Occurrences(probe.active_connections, h) <= 1
          /\ \A c \in SocketConfigs :
                /\ Occurrences(probe.config_connections[c].list, h) <= 1
                /\ InList(probe.config_connections[c].list, h) => probe.sockets[h].config_id = c
    /\ \A c \in SocketConfigs :
          probe.config_connections[c].present => probe.config_connections[c].list # <<>>


\* C29: total_responses_generated never exceeds the number of persisted Sample Records
\* of the configuration.
C29_CountAtMostRecords ==
    yaml_config.total_responses_generated <= Len(Records)

\* one worker has counted its record while another is between its save and its update
C29_Witness ==
    /\ yaml_config.total_responses_generated = 1
    /\ Len(Records) = 2
    /\ \E i \in SampleIds : tasks[i].pc = "saved"

\* the sum of a field over the records
RECURSIVE SumOver(_, _)
SumOver(records, field) ==
    IF records = <<>> THEN 0 ELSE Head(records)[field] + SumOver(Tail(records), field)

\* C30: whenever no worker is between its record save and its aggregate update, each
\* running sum of the configuration is the sum of its field over the persisted records.
C30_SumsMatchRecords ==
    (\A i \in SampleIds : tasks[i].pc # "saved")
      => /\ yaml_config.total_tokens_sum = SumOver(Records, "total_tokens")
         /\ yaml_config.average_latency_sum = SumOver(Records, "latency")
         /\ yaml_config.time_to_first_token_sum = SumOver(Records, "time_to_first_token")
         /\ yaml_config.tokens_per_second_sum = SumOver(Records, "tokens_per_second")


(***************************************************************************)
(* Generation under a dispatcher that executes a work item more than once. *)
(* The dispatcher (config.celery) promises at-least-once execution: a work *)
(* item whose execution is over may be handed to a worker again, with the  *)
(* same arguments.  probe counts the repeated executions.                  *)
(***************************************************************************)
InitRedelivery ==
    /\ InitWith(1..MaxSamples, {GuideTemplate}, {<<ExampleInputs[1]>>}, {FALSE})
    /\ probe = [redelivered |-> 0]

\* the dispatcher executes the work item of position i once more
DispatcherRedeliver(i) ==
    /\ tasks[i].pc = "done"
    /\ probe.redelivered < MaxRedeliveries
    /\ tasks' = [tasks EXCEPT ![i].pc = "queued", ![i].result = "none"]
    /\ probe' = [probe EXCEPT !.redelivered = @ + 1]
    /\ UNCHANGED <<yaml_config, sample_responses, expander, publish, dataset_file,
                   remote_calls, uuids, credentials, download>>

NextRedelivery ==
    \/ ExpanderStart
    \/ ExpanderDispatch
    \/ ExpanderReturn
    \/ ExpanderFail
    \/ \E i \in SampleIds : WorkerGenerate(i)
    \/ \E i \in SampleIds : WorkerUpdate(i)
    \/ \E i \in SampleIds : DispatcherRedeliver(i)

SpecRedelivery == InitRedelivery /\ [][NextRedelivery]_vars

\* C31: total_responses_generated of a configuration never exceeds its
\* number_of_samples, also when the dispatcher executes a work item more than once.
C31_CountAtMostTarget ==
    yaml_config.total_responses_generated <= yaml_config.number_of_samples


\* C32: dataset_uploaded is set to true by a publish only if the upload call of
\* that publish succeeded: while the flag is set, some publish run holds a
\* successful upload response, never only an error envelope.
C32_UploadedOnlyOnSuccess ==
    yaml_config.dataset_uploaded =>
        \E p \in PublishIds : publish[p].upload_response = "ok"


\* C33: a materialized file contains exactly one line per Sample Record read during
\* that materialization: every record yields one line, whichever emission rule
\* applies, and the file is these lines in order.
C33_OneLinePerRecord ==
    probe.pc = "written" =>
        /\ \A k \in 1..Len(probe.samples) : CountLines(MaterializeSample(probe.samples[k])) = 1
        /\ CountLines(probe.file) = Len(probe.samples)


(***************************************************************************)
(* The dataset file while it is written and served.  The upload_dataset    *)
(* task runs in a worker process and GET /download in the web process:     *)
(* each opens datasets/<id>.jsonl with mode 'w', writes one line per       *)
(* sample through a buffered text file and closes it; the download         *)
(* endpoint writes only when the file does not exist, and then returns     *)
(* the file.  probe holds the Sample Records, the two writers (position    *)
(* in the loop, buffer and offset of the open file) and what was served.   *)
(***************************************************************************)
Writers == {"task", "download"}

ServedSamples ==
    UNION {[1..k -> {[response_text |-> text, input_request |-> <<"refund policy question">>] :
                        text \in {ValidResponseText, PlainResponseText}}] : k \in 0..MaxBatch}

\* write(2) of data at an offset of the file; a gap before the offset reads as NUL
WriteAt(content, offset, data) ==
    LET size == Max(Len(content), offset + Len(data))
    IN  [k \in 1..size |->
            IF k > offset /\ k <= offset + Len(data) THEN data[k - offset]
            ELSE IF k <= Len(content) THEN content[k]
            ELSE "\\0"]

InitServing ==
    /\ InitWith({1}, {GuideTemplate}, {<<>>}, {FALSE})
    /\ \E samples \in ServedSamples :
          probe = [samples |-> samples,
                   writers |-> [w \in Writers |->
                                   [pc |-> IF w = "task" THEN "create" ELSE "request",
                                    idx |-> 0, buffer |-> <<>>, offset |-> 0]],
                   served |-> NoText]

\* sample_count == 0 raises the 400; else os.path.exists(dataset_path) decides
\* whether the request writes the file before it returns it
DownloadRequest ==
    /\ probe.writers["download"].pc = "request"
    /\ probe' = [probe EXCEPT !.writers["download"].pc =
                    IF Len(probe.samples) = 0 THEN "refused"
                    ELSE IF ~dataset_file.exists THEN "create"
                    ELSE "serve"]
    /\ UNCHANGED <<yaml_config, sample_responses, expander, tasks, publish, dataset_file,
                   remote_calls, uuids, credentials, download>>

\* with open(dataset_path, 'w') as f: the file is created or truncated
WriterOpen(w) ==
    /\ probe.writers[w].pc = "create"
    /\ dataset_file' = [exists |-> TRUE, content |-> <<>>]
    /\ probe' = [probe EXCEPT !.writers[w] = [pc |-> "loop", idx |-> 0, buffer |-> <<>>,
                                               offset |-> 0]]
    /\ UNCHANGED <<yaml_config, sample_responses, expander, tasks, publish,
                   remote_calls, uuids, credentials, download>>

\* one iteration of the loop: f.write(...) fills the buffer, which the file object
\* writes out when it is full
WriterWrite(w) ==
    /\ probe.writers[w].pc = "loop"
    /\ probe.writers[w].idx < Len(probe.samples)
    /\ LET buffer == probe.writers[w].buffer
                        \o MaterializeSample(probe.samples[probe.writers[w].idx + 1])
       IN  \/ /\ probe' = [probe EXCEPT !.writers[w].idx = @ + 1,
                                        !.writers[w].buffer = buffer]
              /\ UNCHANGED dataset_file
           \/ /\ probe' = [probe EXCEPT !.writers[w].idx = @ + 1,
                                        !.writers[w].buffer = <<>>,
                                        !.writers[w].offset = @ + Len(buffer)]
              /\ dataset_file' = [dataset_file EXCEPT
                                     !.content = WriteAt(@, probe.writers[w].offset, buffer)]
    /\ UNCHANGED <<yaml_config, sample_responses, expander, tasks, publish,
                   remote_calls, uuids, credentials, download>>

\* the with block ends: the buffer is written out and the file is closed
WriterClose(w) ==
    /\ probe.writers[w].pc = "loop"
    /\ ~(probe.writers[w].idx < Len(probe.samples))
    /\ dataset_file' = [dataset_file EXCEPT
                           !.content = WriteAt(@, probe.writers[w].offset,
                                               probe.writers[w].buffer)]
    /\ probe' = [probe EXCEPT !.writers[w].pc = IF w = "task" THEN "closed" ELSE "serve",
                              !.writers[w].buffer = <<>>,
                              !.writers[w].offset = @ + Len(probe.writers[w].buffer)]
    /\ UNCHANGED <<yaml_config, sample_responses, expander, tasks, publish,
                   remote_calls, uuids, credentials, download>>

\* return FileResponse(path=dataset_path, ...): the file as it is now
DownloadServe ==
    /\ probe.writers["download"].pc = "serve"
    /\ probe' = [probe EXCEPT !.writers["download"].pc = "served",
                              !.served = dataset_file.content]
    /\ UNCHANGED <<yaml_config, sample_responses, expander, tasks, publish, dataset_file,
                   remote_calls, uuids, credentials, download>>

NextServing ==
    \/ DownloadRequest
    \/ \E w \in Writers : WriterOpen(w)
    \/ \E w \in Writers : WriterWrite(w)
    \/ \E w \in Writers : WriterClose(w)
    \/ DownloadServe

SpecServing == InitServing /\ [][NextServing]_vars

\* C34: the download endpoint never serves a partially written dataset file: under
\* any interleaving with an upload_dataset task writing the same file, the served
\* file is the complete output of one materialization of the records.
C34_ServedFileComplete ==
    probe.writers["download"].pc = "served" => probe.served = Materialize(probe.samples)


(***************************************************************************)
(* Concurrent publish requests for one configuration, up to the point      *)
(* where each run has settled the dataset id: the handler of POST          *)
(* /dataset/{config_id} (routes.py:33-63) and the start of its             *)
(* upload_dataset task (processor.py:273, 345-349), with credentials set,  *)
(* while the sample is being generated.  probe holds, for each request,    *)
(* its position and the YAMLConfig object it loaded.                       *)
(***************************************************************************)
RequestIds == 1..MaxRequests

InitRequests ==
    /\ InitWith({1}, {GuideTemplate}, {<<ExampleInputs[1]>>}, {TRUE})
    /\ probe = [r \in RequestIds |-> [pc |-> "idle", doc |-> <<>>, result |-> "none"]]

\* the handler loads the config and counts its samples; without samples: status 400
RequestLoad(r) ==
    /\ probe[r].pc = "idle"
    /\ IF Len(SamplesOf(sample_responses, CONFIG_ID)) = 0
       THEN probe' = [probe EXCEPT ![r].pc = "done", ![r].result = "400"]
       ELSE probe' = [probe EXCEPT ![r].pc = "h_loaded", ![r].doc = yaml_config]
    /\ UNCHANGED <<yaml_config, sample_responses, expander, tasks, publish, dataset_file,
                   remote_calls, uuids, credentials, download>>

\* if not yaml_config.dataset_id: a uuid is drawn and saved; the task is sent
RequestSend(r) ==
    /\ probe[r].pc = "h_loaded"
    /\ IF probe[r].doc.dataset_id = 0
       THEN /\ yaml_config' = SaveDocument(yaml_config,
                                  [probe[r].doc EXCEPT !.dataset_id = uuids + 1],
                                  {"dataset_id"})
            /\ uuids' = uuids + 1
       ELSE UNCHANGED <<yaml_config, uuids>>
    /\ probe' = [probe EXCEPT ![r].pc = "t_queued", ![r].doc = <<>>]
    /\ UNCHANGED <<sample_responses, expander, tasks, publish, dataset_file, remote_calls,
                   credentials, download>>

\* the task starts: yaml_config = YAMLConfig.objects.get(id=yaml_config_id)
RequestTaskLoad(r) ==
    /\ probe[r].pc = "t_queued"
    /\ probe' = [probe EXCEPT ![r].pc = "t_loaded", ![r].doc = yaml_config]
    /\ UNCHANGED <<yaml_config, sample_responses, expander, tasks, publish, dataset_file,
                   remote_calls, uuids, credentials, download>>

\* the task, after the file is written: if not yaml_config.dataset_id: a uuid is
\* drawn and saved
RequestTaskDatasetId(r) ==
    /\ probe[r].pc = "t_loaded"
    /\ IF probe[r].doc.dataset_id = 0
       THEN /\ yaml_config' = SaveDocument(yaml_config,
                                  [probe[r].doc EXCEPT !.dataset_id = uuids + 1],
                                  {"dataset_id"})
            /\ uuids' = uuids + 1
       ELSE UNCHANGED <<yaml_config, uuids>>
    /\ probe' = [probe EXCEPT ![r].pc = "done", ![r].doc = <<>>, ![r].result = "t_ready"]
    /\ UNCHANGED <<sample_responses, expander, tasks, publish, dataset_file, remote_calls,
                   credentials, download>>

NextRequests ==
    \/ ExpanderStart
    \/ ExpanderDispatch
    \/ ExpanderReturn
    \/ ExpanderFail
    \/ \E i \in SampleIds : WorkerGenerate(i)
    \/ \E i \in SampleIds : WorkerUpdate(i)
    \/ \E r \in RequestIds : RequestLoad(r)
    \/ \E r \in RequestIds : RequestSend(r)
    \/ \E r \in RequestIds : RequestTaskLoad(r)
    \/ \E r \in RequestIds : RequestTaskDatasetId(r)

SpecRequests == InitRequests /\ [][NextRequests]_vars

\* C35: once a configuration's dataset_id has been set it never changes, under any
\* interleaving of concurrent publish requests and upload_dataset tasks.
C35_DatasetIdWriteOnce ==
    [][yaml_config.dataset_id # 0 => yaml_config'.dataset_id = yaml_config.dataset_id]_vars


(***************************************************************************)
(* One work item from the Job Expander to the Sample Worker: the template  *)
(* is repaired, the chosen example input is substituted, and the worker    *)
(* extracts the input request from the rendered prompt.  probe holds the   *)
(* template, the chosen input, the prompt and the extracted text.          *)
(***************************************************************************)
InitRoundTrip ==
    /\ InitWith({1}, {GuideTemplate}, {<<>>}, {FALSE})
    /\ \E template \in UserPrompts \cup {GuideTemplate}, k \in 1..Len(ExampleInputs) :
          probe = [user_prompt |-> template, selected_input |-> ExampleInputs[k],
                   pc |-> "expand", prompt |-> <<>>, input_request |-> NoText]

\* process_yaml_config: repair, random.choice, quote removal and substitution
RenderStep ==
    /\ probe.pc = "expand"
    /\ probe' = [probe EXCEPT !.pc = "queued",
                              !.prompt = CompletePrompt(RepairTemplate(probe.user_prompt),
                                                        probe.selected_input)]
    /\ UNCHANGED <<yaml_config, sample_responses, expander, tasks, publish, dataset_file,
                   remote_calls, uuids, credentials, download>>

\* generate_sample_response: the extraction from the prompt argument
ExtractStep ==
    /\ probe.pc = "queued"
    /\ probe' = [probe EXCEPT !.pc = "extracted",
                              !.input_request = ExtractInputRequest(probe.prompt)]
    /\ UNCHANGED <<yaml_config, sample_responses, expander, tasks, publish, dataset_file,
                   remote_calls, uuids, credentials, download>>

NextRoundTrip ==
    \/ RenderStep
    \/ ExtractStep

SpecRoundTrip == InitRoundTrip /\ [][NextRoundTrip]_vars

\* C36: for every work item the Job Expander renders with chosen example input x,
\* including templates that had the placeholder trailer and the instruction block
\* appended, the input_request the Sample Worker extracts from the prompt equals x.
C36_ExtractionRoundTrip ==
    probe.pc = "extracted" => probe.input_request = probe.selected_input


(***************************************************************************)
(* format_yaml_config_data (api/websockets/routes.py): the progress fields *)
(* of a live update.  probe holds the two counters of the configuration    *)
(* and the formatted fields.  The quotient total / target * 100 is a       *)
(* binary64 value: away from a half it rounds as the exact quotient does;  *)
(* at an exact half the binary64 product lies on either side of it, so     *)
(* both neighbours are outcomes.                                           *)
(***************************************************************************)
Min(a, b) == IF a < b THEN a ELSE b

\* min(100, round((total_responses / target_samples) * 100)) if target_samples > 0 else 0
ProgressPercents(total_responses, target_samples) ==
    IF target_samples > 0
    THEN LET q == (100 * total_responses) \div target_samples
             r == (100 * total_responses) % target_samples
         IN  IF 2 * r = target_samples THEN {Min(100, q), Min(100, q + 1)}
             ELSE {Min(100, RoundHalfEven(100 * total_responses, target_samples))}
    ELSE {0}

\* "Complete" if progress_percent == 100 else "In Progress"
progress_status(progress_percent) ==
    IF progress_percent = 100 THEN "Complete" ELSE "In Progress"

InitFormat ==
    /\ InitWith({1}, {GuideTemplate}, {<<>>}, {FALSE})
    /\ \E target \in -1..MaxTarget :
          \E total \in 0..Max(target, 0) + 1 :
              probe = [number_of_samples |-> target, total_responses_generated |-> total,
                       pc |-> "stored", progress_percent |-> 0, progress_status |-> "none"]

FormatStep ==
    /\ probe.pc = "stored"
    /\ \E percent \in ProgressPercents(probe.total_responses_generated, probe.number_of_samples) :
          probe' = [probe EXCEPT !.pc = "formatted",
                                 !.progress_percent = percent,
                                 !.progress_status = progress_status(percent)]
    /\ UNCHANGED <<yaml_config, sample_responses, expander, tasks, publish, dataset_file,
                   remote_calls, uuids, credentials, download>>

SpecFormat == InitFormat /\ [][FormatStep]_vars

\* C37: the formatter reports progress_status "Complete" only when
\* total_responses_generated >= number_of_samples; for every count below the
\* target the status is "In Progress".
C37_CompleteOnlyAtTarget ==
    probe.pc = "formatted" =>
        /\ probe.progress_status = "Complete"
              => probe.total_responses_generated >= probe.number_of_samples
        /\ probe.total_responses_generated < probe.number_of_samples
              => probe.progress_status = "In Progress"

=============================================================================
